---- MODULE Spec2Model ----
(***************************************************************************)
(* Tweakr: client-side citation annotation, reference formatting, the      *)
(* dashboard's accept/dismiss bookkeeping and the payment verification      *)
(* retry loop.                                                              *)
(*                                                                          *)
(* Strings are sequences of one-character strings, so that matching,        *)
(* trimming, splitting and insertion are computed character by character.   *)
(* A string field that is undefined or "" in the code is the empty          *)
(* sequence here: every use of such a field in the modelled code is a       *)
(* truthiness test (x || y, !x, x ? a : b), which does not tell them apart. *)
(* An optional object (paper_details) is a sequence of zero or one record.  *)
(***************************************************************************)
EXTENDS Integers, Sequences, FiniteSets, TLC

VARIABLES
    text,            \* annotator input: the raw text
    citations,       \* annotator / formatter input: the citation list
    sortedCitations, \* the sorted copy the forEach walks
    idx,             \* forEach position in sortedCitations (next to apply)
    annotatedText,   \* accumulator of lib/documentProcessor's annotator
    liveText,        \* accumulator of hooks/' annotator on the same input
    prevText,        \* annotatedText before the last forEach iteration
    prevLive,        \* liveText before the last forEach iteration
    reannotated,     \* lib/documentProcessor's annotator applied to its own result
    reannotatedLive, \* hooks/' annotator applied to its own result
    styleGuide,      \* the style guide name passed to the formatters
    references,      \* referencesChildren of processDocument
    liveReferences,  \* the references array of hooks/' formatReferences
    document,        \* the paragraphs of the Document createWordDocument builds
    finalDocument,   \* the string createDocumentWithCitations returns
    result,          \* what handleFinalize returned (its statistics), or <<>>
    thrown,          \* the message of the Error the operation threw, or ""
    processCalls,    \* how often handleFinalize has called processDocument
    objectUrls,      \* how often handleFinalize has called URL.createObjectURL
    failedStage,     \* the step of processDocument that threw, or ""
    uploadedFiles,            \* Page: the uploaded file, if any
    extractResult,            \* Page: the extracted content, once the extract query has data
    isLoadingSuggestions,     \* Page: the suggestions query is fetching
    citationSuggestionsData,  \* Page: the flattened suggestions, once the query has data
    acceptedCitations,        \* Page state
    dismissedCitations,       \* Page state
    pageAnnotatedText,        \* Page state annotatedText, the text shown
    activeTab,                \* Page state
    isPayment,                \* Page state
    attempt,                  \* verifyPaymentWithRetry: the loop counter
    paymentLog,               \* verifyPaymentWithRetry: timers, requests, responses, toasts, callbacks
    returned,                 \* verifyPaymentWithRetry: the value returned, once it has returned
    pc,  \* position of the running operation
    component,       \* the component whose handlePaymentSuccessful runs
    email,           \* useAuthStore: an email is known
    createAttempt,   \* handlePaymentSuccessful: the loop variable attempt
    subscribeLog,    \* handlePaymentSuccessful: requests, toasts and timers, in order
    isLoading,       \* handlePaymentSuccessful: the isLoading state
    subscription,    \* CostBreakDown: the state of the subscription query
    reportedSubscribed, \* history: the subscription query has reported a subscription
    verified,        \* history: a payment verification was answered with a success
    isInitializing,  \* FlutterwaveButton: the isInitializing state
    isVerifying,     \* FlutterwaveButton: the isVerifying state
    isCitationPerfectionAchieved, \* Page state
    isProcessing,    \* Page state
    processingResult, \* Page state: <<>> for null, else <<result>>
    pendingFinalize, \* the calls of the finalize function that have not settled
    pageEvent,       \* the last step of handleCompleteCitationTransportation and its error toasts
    flows,           \* FlutterwaveButton: the phase of every payment flow started so far
    localStorage,    \* the entries token, userEmail and id: <<>> for none, else <<value>>
    token,           \* Page state, read from localStorage when the page is mounted
    isRegisterReady, \* Page state
    isCitationReady, \* Page state
    isLogin,         \* Page state, passed to CreateAccountModal
    formData,        \* CreateAccountModal state
    errors,          \* CreateAccountModal state
    authRequests,    \* the login and register requests that have not been answered
    authEvent,       \* what the last step of Page or CreateAccountModal did
    searchDetails,   \* pipeline console (App) state: query and category
    appIsProcessing, \* App state isProcessing
    stats,           \* App state
    logs,            \* App state
    appError,        \* App state error: "" for null
    currentJobId,    \* App state: 0 for null
    jobs             \* per job started: its interval, the status on the server, the ticks in flight

annotateVars == <<sortedCitations, idx, annotatedText, liveText, prevText, prevLive,
                  reannotated, reannotatedLive>>

finalizeVars == <<styleGuide, references, liveReferences, document, finalDocument,
                  result, thrown, processCalls, objectUrls, failedStage>>

dashboardVars == <<uploadedFiles, extractResult, isLoadingSuggestions, citationSuggestionsData,
                   acceptedCitations, dismissedCitations, pageAnnotatedText, activeTab,
                   isPayment>>

paymentVars == <<attempt, paymentLog, returned>>

subscribeVars == <<component, email, createAttempt, subscribeLog, isLoading>>

pageVars == <<isCitationPerfectionAchieved, isProcessing, processingResult, pendingFinalize,
              pageEvent>>

gateVars == <<subscription, reportedSubscribed, verified, isInitializing, isVerifying, pageVars,
              flows>>

accountVars == <<localStorage, token, isRegisterReady, isCitationReady, isLogin, formData,
                 errors, authRequests, authEvent>>

consoleVars == <<searchDetails, appIsProcessing, stats, logs, appError, currentJobId, jobs>>

vars == <<text, citations, annotateVars, finalizeVars, dashboardVars, paymentVars,
          subscribeVars, gateVars, accountVars, consoleVars, pc>>

\* an entry of pageEvent
PageEvent(kind, errorToasts) == [kind |-> kind, errorToasts |-> errorToasts]

\* an entry of formData and of errors
Form(e, p, c) == [email |-> e, password |-> p, confirmPassword |-> c]

\* Page, lines 68-77, without a stored token; CreateAccountModal is not mounted
AccountIdle ==
    /\ localStorage = [token |-> <<>>, userEmail |-> <<>>, id |-> <<>>]
    /\ token = <<>>
    /\ isRegisterReady = FALSE
    /\ isCitationReady = FALSE
    /\ isLogin = FALSE
    /\ formData = Form(<<>>, <<>>, <<>>)
    /\ errors = Form("", "", "")
    /\ authRequests = <<>>
    /\ authEvent = "none"

\* App, lines 43-61: the state of the pipeline console when it is mounted
ConsoleMounted ==
    /\ searchDetails = [query |-> <<>>, category |-> <<>>]
    /\ appIsProcessing = FALSE
    /\ stats = [job |-> 0, papersProcessed |-> 0, isProcessing |-> FALSE]
    /\ logs = <<>>
    /\ appError = ""
    /\ currentJobId = 0
    /\ jobs = <<>>

\* CostBreakDown is not mounted and nothing has been finalized
GateIdle ==
    /\ subscription = "pending"
    /\ reportedSubscribed = FALSE
    /\ verified = FALSE
    /\ isInitializing = FALSE
    /\ isVerifying = FALSE
    /\ isCitationPerfectionAchieved = FALSE
    /\ isProcessing = FALSE
    /\ processingResult = <<>>
    /\ pendingFinalize = 0
    /\ pageEvent = PageEvent("none", 0)
    /\ flows = <<>>

\* no handlePaymentSuccessful is running
SubscribeIdle ==
    /\ component = "CitationPerfectionAchieve"
    /\ email = TRUE
    /\ createAttempt = 0
    /\ subscribeLog = <<>>
    /\ isLoading = FALSE

\* no payment verification is running
PaymentIdle ==
    /\ attempt = 0
    /\ paymentLog = <<>>
    /\ returned = <<>>

\* Page, lines 64-87: the state of the dashboard when it is mounted
DashboardMounted ==
    /\ uploadedFiles = <<>>
    /\ extractResult = <<>>
    /\ isLoadingSuggestions = FALSE
    /\ citationSuggestionsData = <<>>
    /\ acceptedCitations = <<>>
    /\ dismissedCitations = <<>>
    /\ pageAnnotatedText = <<>>
    /\ activeTab = "settings"
    /\ isPayment = FALSE

(***************************************************************************)
(* Bounds of the explored inputs.                                           *)
(***************************************************************************)
MaxTextLen == 2

MaxSentLen == 1

\* the annotation of a result is repeated only for results up to this length
MaxAgainLen == 10

(***************************************************************************)
(* Characters and string primitives (JavaScript semantics).                 *)
(***************************************************************************)
IsSpace(c) == c \in {" ", "\n", "\t"}

IsPunct(c) == c \in {".", "?", "!"}

UpperCase == <<"A", "B", "C", "D", "E", "F", "G", "H", "I", "J", "K", "L", "M",
               "N", "O", "P", "Q", "R", "S", "T", "U", "V", "W", "X", "Y", "Z">>

LowerCase == <<"a", "b", "c", "d", "e", "f", "g", "h", "i", "j", "k", "l", "m",
               "n", "o", "p", "q", "r", "s", "t", "u", "v", "w", "x", "y", "z">>

Lower(c) ==
    IF \E k \in 1..26 : UpperCase[k] = c
    THEN LowerCase[CHOOSE k \in 1..26 : UpperCase[k] = c]
    ELSE c

RegexMeta == {".", "*", "+", "?", "^", "$", "{", "}", "(", ")", "|", "[", "]", "\\"}

RECURSIVE trimStart(_)
trimStart(s) ==
    IF s # <<>> /\ IsSpace(Head(s)) THEN trimStart(Tail(s)) ELSE s

RECURSIVE trimEnd(_)
trimEnd(s) ==
    IF s # <<>> /\ IsSpace(s[Len(s)]) THEN trimEnd(SubSeq(s, 1, Len(s) - 1)) ELSE s

trim(s) == trimEnd(trimStart(s))

\* str.split(' ').pop(): the part after the last space (the whole string if none)
RECURSIVE splitPop(_)
splitPop(s) ==
    IF s = <<>> THEN <<>>
    ELSE IF s[Len(s)] = " " THEN <<>>
    ELSE splitPop(SubSeq(s, 1, Len(s) - 1)) \o <<s[Len(s)]>>

\* all strings over alphabet A of length exactly n / at most n
RECURSIVE StrsOfLen(_, _)
StrsOfLen(A, n) ==
    IF n = 0 THEN {<<>>}
    ELSE {<<c>> \o s : c \in A, s \in StrsOfLen(A, n - 1)}

StrsUpTo(A, n) == UNION {StrsOfLen(A, k) : k \in 0..n}

(***************************************************************************)
(* Regular expressions: the subset the annotators build.                    *)
(* An atom is [kind, ch, q]: kind "lit" (the character ch), "ws" (\s),      *)
(* "any" (.), "punct" ([.?!]); q is "one", "plus", "star" or "opt".         *)
(***************************************************************************)
Atom(kind, ch, q) == [kind |-> kind, ch |-> ch, q |-> q]

\* str.replace(/[.*+?^${}()|[\]\\]/g, '\\$&')
RECURSIVE escapeRegExp(_)
escapeRegExp(s) ==
    IF s = <<>> THEN <<>>
    ELSE (IF Head(s) \in RegexMeta THEN <<"\\", Head(s)>> ELSE <<Head(s)>>)
         \o escapeRegExp(Tail(s))

\* str.replace(/\s+/g, '\\s+')
RECURSIVE whitespaceToPattern(_)
whitespaceToPattern(s) ==
    IF s = <<>> THEN <<>>
    ELSE IF IsSpace(Head(s))
         THEN <<"\\", "s", "+">> \o whitespaceToPattern(trimStart(s))
         ELSE <<Head(s)>> \o whitespaceToPattern(Tail(s))

\* new RegExp(source): the atoms of a pattern source made of literals,
\* backslash escapes, \s, '.', and a postfix '+'
RECURSIVE parseRegExp(_)
parseRegExp(p) ==
    IF p = <<>> THEN <<>>
    ELSE LET esc  == Head(p) = "\\" /\ Len(p) >= 2
             used == IF esc THEN 2 ELSE 1
             kind == IF esc THEN (IF p[2] = "s" THEN "ws" ELSE "lit")
                     ELSE IF Head(p) = "." THEN "any" ELSE "lit"
             ch   == IF esc THEN p[2] ELSE Head(p)
             plus == Len(p) > used /\ p[used + 1] = "+"
             rest == SubSeq(p, used + (IF plus THEN 2 ELSE 1), Len(p))
         IN <<Atom(kind, ch, IF plus THEN "plus" ELSE "one")>> \o parseRegExp(rest)

\* does atom a accept character c (flag i: letters compared case-insensitively)
Accepts(a, c) ==
    CASE a.kind = "lit"   -> Lower(a.ch) = Lower(c)
      [] a.kind = "ws"    -> IsSpace(c)
      [] a.kind = "any"   -> c # "\n"
      [] a.kind = "punct" -> IsPunct(c)

\* number of consecutive characters of t from pos on that atom a accepts
RECURSIVE runLength(_, _, _)
runLength(a, t, pos) ==
    IF pos <= Len(t) /\ Accepts(a, t[pos]) THEN 1 + runLength(a, t, pos + 1) ELSE 0

\* backtracking match of atoms[k..] at position pos of t: the position after
\* the match the engine prefers (greedy quantifiers), or 0 when none exists
RECURSIVE matchFrom(_, _, _, _)
matchFrom(atoms, k, t, pos) ==
    IF k > Len(atoms) THEN pos
    ELSE LET a    == atoms[k]
             run  == runLength(a, t, pos)
             lo   == IF a.q \in {"one", "plus"} THEN 1 ELSE 0
             hi   == IF a.q \in {"one", "opt"} THEN (IF run >= 1 THEN 1 ELSE 0) ELSE run
             good == {n \in lo..hi : matchFrom(atoms, k + 1, t, pos + n) # 0}
         IN IF good = {} THEN 0
            ELSE matchFrom(atoms, k + 1, t, pos + (CHOOSE n \in good : \A m \in good : m <= n))

(***************************************************************************)
(* Literal strings of the code.                                             *)
(***************************************************************************)
Unknown == <<"U", "n", "k", "n", "o", "w", "n">>

UnknownAuthor == Unknown \o <<" ", "A", "u", "t", "h", "o", "r">>

NoDate == <<"n", ".", "d", ".">>

PunctOpt == Atom("punct", "", "opt")

SpaceStar == Atom("ws", "", "star")

(***************************************************************************)
(* lib/documentProcessor.ts: annotateTextWithCitation                       *)
(***************************************************************************)
\* Array.prototype.sort with the comparator (b.len || 0) - (a.len || 0):
\* stable, longest original_sentence first
RECURSIVE insertByLength(_, _)
insertByLength(c, s) ==
    IF s = <<>> THEN <<c>>
    ELSE IF Len(Head(s).original_sentence) >= Len(c.original_sentence)
         THEN <<Head(s)>> \o insertByLength(c, Tail(s))
         ELSE <<c>> \o s

\* sortByLength that keeps the input order
sortByLength_inputOrder(cs) == cs

RECURSIVE sortByLength(_)
sortByLength(cs) ==
    IF cs = <<>> THEN <<>>
    ELSE insertByLength(cs[Len(cs)], sortByLength(SubSeq(cs, 1, Len(cs) - 1)))

\* lines 59-61: last space-separated token of the first author, else 'Unknown'
dp_authorLastName(pd) ==
    IF pd.authors # <<>> THEN splitPop(pd.authors[1]) ELSE Unknown

\* line 63: `(${authorLastName}, ${year || 'n.d.'})`
dp_citationMarker(pd) ==
    <<"(">> \o dp_authorLastName(pd) \o <<",", " ">>
    \o (IF pd.year # <<>> THEN pd.year ELSE NoDate) \o <<")">>

\* dp_sentenceRegex without the escaping of line 66
dp_sentenceRegex_unescaped(sentence) ==
    parseRegExp(whitespaceToPattern(trim(sentence))) \o <<PunctOpt>>

\* lines 65-69: the regular expression built from original_sentence (flags gi)
dp_sentenceRegex(sentence) ==
    parseRegExp(whitespaceToPattern(trim(escapeRegExp(sentence)))) \o <<PunctOpt>>

\* dp_replacement appending the marker to the whole match, punctuation included
dp_replacement_afterPunct(match, marker) == trimEnd(match) \o <<" ">> \o marker

\* lines 71-82: the replace callback
dp_replacement(match, marker) ==
    LET hasPunct    == match # <<>> /\ IsPunct(match[Len(match)])
        punctuation == IF hasPunct THEN <<match[Len(match)]>> ELSE <<>>
        content     == IF hasPunct THEN SubSeq(match, 1, Len(match) - 1) ELSE match
    IN trimEnd(content) \o <<" ">> \o marker \o punctuation

\* String.prototype.replace with a global regex and a callback, from pos on:
\* leftmost matches, non-overlapping; after an empty match the next character
\* is copied and the scan moves on by one
RECURSIVE dp_replaceAll(_, _, _, _)
dp_replaceAll(atoms, t, pos, marker) ==
    IF pos > Len(t) + 1 THEN <<>>
    ELSE LET e    == matchFrom(atoms, 1, t, pos)
             here == IF pos <= Len(t) THEN <<t[pos]>> ELSE <<>>
         IN IF e = 0 THEN here \o dp_replaceAll(atoms, t, pos + 1, marker)
            ELSE IF e = pos
                 THEN dp_replacement(<<>>, marker) \o here
                      \o dp_replaceAll(atoms, t, pos + 1, marker)
                 ELSE dp_replacement(SubSeq(t, pos, e - 1), marker)
                      \o dp_replaceAll(atoms, t, e, marker)

\* lines 53-83: one forEach iteration on the accumulated text
dp_applyCitation(t, citation) ==
    IF citation.original_sentence = <<>> \/ citation.paper_details = <<>> THEN t
    ELSE dp_replaceAll(dp_sentenceRegex(citation.original_sentence), t, 1,
                       dp_citationMarker(citation.paper_details[1]))

RECURSIVE dp_forEach(_, _)
dp_forEach(t, cs) ==
    IF cs = <<>> THEN t ELSE dp_forEach(dp_applyCitation(t, Head(cs)), Tail(cs))

\* lines 42-86
dp_annotateTextWithCitation(t, cs) ==
    IF t = <<>> \/ cs = <<>> THEN t ELSE dp_forEach(t, sortByLength(cs))

(***************************************************************************)
(* hooks/annotateTextWithCitations.ts: annotateTextWithCitation (the live   *)
(* preview of the dashboard)                                                *)
(***************************************************************************)
\* lines 47-48
hook_authorName(pd) ==
    IF pd.authors # <<>> THEN splitPop(pd.authors[1]) ELSE Unknown

\* line 49: `${authorName}, ${year}`
hook_citationMarker(pd) == hook_authorName(pd) \o <<",", " ">> \o pd.year

\* lines 51-52: the capture group of `(${escapedSentence}[.?!]?)\s*` (flag i)
hook_sentenceGroup(sentence) ==
    parseRegExp(trim(escapeRegExp(sentence))) \o <<PunctOpt>>

\* line 54: String.prototype.replace with a non-global regex and the
\* replacement `$1 (${citationMarker}) `: the leftmost match only
RECURSIVE hook_replaceFirst(_, _, _, _)
hook_replaceFirst(group, t, pos, marker) ==
    IF pos > Len(t) + 1 THEN <<>>
    ELSE LET g == matchFrom(group, 1, t, pos)
         IN IF g = 0
            THEN (IF pos <= Len(t) THEN <<t[pos]>> ELSE <<>>)
                 \o hook_replaceFirst(group, t, pos + 1, marker)
            ELSE LET e == matchFrom(<<SpaceStar>>, 1, t, g)
                 IN SubSeq(t, pos, g - 1) \o <<" ", "(">> \o marker \o <<")", " ">>
                    \o SubSeq(t, e, Len(t))

\* lines 41-55: one forEach iteration
hook_applyCitation(t, citation) ==
    IF citation.original_sentence = <<>> \/ citation.paper_details = <<>> THEN t
    ELSE hook_replaceFirst(hook_sentenceGroup(citation.original_sentence), t, 1,
                           hook_citationMarker(citation.paper_details[1]))

RECURSIVE hook_forEach(_, _)
hook_forEach(t, cs) ==
    IF cs = <<>> THEN t ELSE hook_forEach(hook_applyCitation(t, Head(cs)), Tail(cs))

\* lines 26-58
hook_annotateTextWithCitation(t, cs) ==
    IF t = <<>> \/ cs = <<>> THEN t ELSE hook_forEach(t, sortByLength(cs))

(***************************************************************************)
(* Objects used as dictionaries.  A dictionary is the sequence of its       *)
(* [key, value] entries in insertion order; Object.values lists the values  *)
(* of the keys that are array indices (canonical decimal numerals) first,   *)
(* in ascending numeric order, then the other values in insertion order.    *)
(***************************************************************************)
Digits == <<"0", "1", "2", "3", "4", "5", "6", "7", "8", "9">>

IsDigit(c) == \E d \in 1..10 : Digits[d] = c

DigitValue(c) == (CHOOSE d \in 1..10 : Digits[d] = c) - 1

IsArrayIndex(key) ==
    /\ key # <<>>
    /\ \A i \in 1..Len(key) : IsDigit(key[i])
    /\ (Len(key) = 1 \/ key[1] # "0")

RECURSIVE NumericValue(_)
NumericValue(key) ==
    IF key = <<>> THEN 0
    ELSE 10 * NumericValue(SubSeq(key, 1, Len(key) - 1)) + DigitValue(key[Len(key)])

HasKey(dict, key) == \E i \in 1..Len(dict) : dict[i].key = key

IndexOfKey(dict, key) == CHOOSE i \in 1..Len(dict) : dict[i].key = key

RECURSIVE SelectEntries(_, _)
SelectEntries(dict, numeric) ==
    IF dict = <<>> THEN <<>>
    ELSE (IF IsArrayIndex(Head(dict).key) = numeric THEN <<Head(dict)>> ELSE <<>>)
         \o SelectEntries(Tail(dict), numeric)

RECURSIVE insertByIndex(_, _)
insertByIndex(e, s) ==
    IF s = <<>> THEN <<e>>
    ELSE IF NumericValue(Head(s).key) <= NumericValue(e.key)
         THEN <<Head(s)>> \o insertByIndex(e, Tail(s))
         ELSE <<e>> \o s

RECURSIVE sortByIndex(_)
sortByIndex(s) ==
    IF s = <<>> THEN <<>>
    ELSE insertByIndex(s[Len(s)], sortByIndex(SubSeq(s, 1, Len(s) - 1)))

objectValues(dict) ==
    LET ordered == sortByIndex(SelectEntries(dict, TRUE)) \o SelectEntries(dict, FALSE)
    IN [i \in 1..Len(ordered) |-> ordered[i].value]

\* array.join(separator)
RECURSIVE join(_, _)
join(parts, sep) ==
    IF parts = <<>> THEN <<>>
    ELSE IF Len(parts) = 1 THEN parts[1]
    ELSE parts[1] \o sep \o join(Tail(parts), sep)

\* JSON.stringify(paper_details): a serialisation that tells any two papers apart
JSONstringify(pd) ==
    <<"{">> \o join(pd.authors, <<",">>) \o <<";">> \o pd.year \o <<";">> \o pd.title
    \o <<";">> \o pd.url \o <<";">> \o pd.doi \o <<"}">>

\* String.prototype.toUpperCase on the style guide names in use
toUpperCase(style) ==
    CASE style = "apa"     -> "APA"
      [] style = "Chicago" -> "CHICAGO"
      [] style = "Harvard" -> "HARVARD"
      [] OTHER             -> style

(***************************************************************************)
(* lib/documentProcessor.ts: formatReferences                               *)
(***************************************************************************)
TextRun(t) == [type |-> "TextRun", text |-> t, italics |-> FALSE]

ItalicRun(t) == [type |-> "TextRun", text |-> t, italics |-> TRUE]

ExternalHyperlink(link) == [type |-> "ExternalHyperlink", text |-> link, italics |-> FALSE]

\* dp_paperKey without the fallback to the URL and the title
dp_paperKey_doiOnly(pd) == IF pd.doi # <<>> THEN pd.doi ELSE JSONstringify(pd)

\* line 94: doi || url || title || JSON.stringify(citation.paper_details)
dp_paperKey(pd) ==
    IF pd.doi # <<>> THEN pd.doi
    ELSE IF pd.url # <<>> THEN pd.url
    ELSE IF pd.title # <<>> THEN pd.title
    ELSE JSONstringify(pd)

\* lines 91-106: one forEach iteration on uniquePapersData
dp_collect(dict, citation) ==
    IF citation.paper_details = <<>> THEN dict
    ELSE LET pd  == citation.paper_details[1]
             key == dp_paperKey(pd)
         IN IF ~HasKey(dict, key)
            THEN Append(dict, [key |-> key,
                               value |-> [paper |-> pd, page_number |-> citation.page_number]])
            ELSE LET i == IndexOfKey(dict, key)
                 IN IF dict[i].value.page_number = <<>> /\ citation.page_number # <<>>
                    THEN [dict EXCEPT ![i].value.page_number = citation.page_number]
                    ELSE dict

RECURSIVE dp_uniquePapersData(_)
dp_uniquePapersData(cs) ==
    IF cs = <<>> THEN <<>>
    ELSE dp_collect(dp_uniquePapersData(SubSeq(cs, 1, Len(cs) - 1)), cs[Len(cs)])

\* dp_authorText with the fallback of the in-text marker
dp_authorText_short(pd) == IF pd.authors # <<>> THEN join(pd.authors, <<",", " ">>) ELSE Unknown

\* lines 110-114
dp_authorText(pd) == IF pd.authors # <<>> THEN join(pd.authors, <<",", " ">>) ELSE UnknownAuthor

dp_yearText(pd) == IF pd.year # <<>> THEN pd.year ELSE NoDate

dp_titleText(pd) == IF pd.title # <<>> THEN pd.title ELSE <<"U", "n", "t", "i", "t", "l", "e", "d">>

dp_pageText(page) == IF page # <<>> THEN <<"p", ".", " ">> \o page ELSE <<>>

dp_sourceLink(pd) == IF pd.doi # <<>> THEN <<"h", "t", "t", "p", "s", ":", "/", "/", "d", "o", "i", ".", "o", "r", "g", "/">> \o pd.doi ELSE pd.url

\* lines 118-132
dp_childrenAPA(pd, page) ==
    <<TextRun(dp_authorText(pd) \o <<" ", "(">> \o dp_yearText(pd) \o <<")", ".", " ">>),
      ItalicRun(dp_titleText(pd)),
      TextRun(<<".">>)>>
    \o (IF dp_pageText(page) # <<>> THEN <<TextRun(<<" ">> \o dp_pageText(page) \o <<".">>)>> ELSE <<>>)
    \o (IF dp_sourceLink(pd) # <<>>
        THEN <<TextRun(<<" ">>), ExternalHyperlink(dp_sourceLink(pd))>> ELSE <<>>)

\* lines 133-145
dp_childrenMLA(pd, page) ==
    <<TextRun(dp_authorText(pd) \o <<".", " ", "\"">> \o dp_titleText(pd)
              \o <<".", "\"", " ">> \o dp_yearText(pd))>>
    \o (IF dp_pageText(page) # <<>> THEN <<TextRun(<<",", " ">> \o dp_pageText(page))>> ELSE <<>>)
    \o <<TextRun(<<".", " ", "W", "e", "b", ".", " ">>)>>
    \o (IF dp_sourceLink(pd) # <<>> THEN <<ExternalHyperlink(dp_sourceLink(pd))>> ELSE <<>>)

\* lines 146-161
dp_childrenChicago(pd, page) ==
    <<TextRun(dp_authorText(pd) \o <<".", " ", "\"">> \o dp_titleText(pd)
              \o <<".", "\"", " ">> \o dp_yearText(pd)
              \o (IF dp_pageText(page) # <<>> THEN <<",", " ">> \o dp_pageText(page) ELSE <<>>)
              \o <<".">>)>>
    \o (IF dp_sourceLink(pd) # <<>>
        THEN <<TextRun(<<" ">>), ExternalHyperlink(dp_sourceLink(pd)), TextRun(<<".">>)>>
        ELSE <<>>)

\* lines 162-176
dp_childrenDefault(pd, page) ==
    <<TextRun(dp_authorText(pd) \o <<" ", "(">> \o dp_yearText(pd) \o <<")", ".", " ">>),
      ItalicRun(dp_titleText(pd)),
      TextRun(<<".">>)>>
    \o (IF dp_pageText(page) # <<>> THEN <<TextRun(<<" ">> \o dp_pageText(page) \o <<".">>)>> ELSE <<>>)
    \o (IF dp_sourceLink(pd) # <<>>
        THEN <<TextRun(<<" ">>), ExternalHyperlink(dp_sourceLink(pd))>> ELSE <<>>)

\* lines 108-179: the children of one reference paragraph
dp_children(paperData, style) ==
    LET pd   == paperData.paper
        page == paperData.page_number
    IN CASE toUpperCase(style) = "APA"     -> dp_childrenAPA(pd, page)
         [] toUpperCase(style) = "MLA"     -> dp_childrenMLA(pd, page)
         [] toUpperCase(style) = "CHICAGO" -> dp_childrenChicago(pd, page)
         [] OTHER                          -> dp_childrenDefault(pd, page)

\* lines 88-180
dp_formatReferences(cs, style) ==
    LET values == objectValues(dp_uniquePapersData(cs))
    IN [i \in 1..Len(values) |-> dp_children(values[i], style)]

\* lines 261-270
getUniqueReferencesCount(cs) ==
    Cardinality({ LET pd == cs[i].paper_details[1]
                  IN IF pd.doi # <<>> THEN pd.doi
                     ELSE IF pd.url # <<>> THEN pd.url ELSE pd.title
                  : i \in {j \in 1..Len(cs) : cs[j].paper_details # <<>>} })

(***************************************************************************)
(* hooks/annotateTextWithCitations.ts: formatReferences                     *)
(***************************************************************************)
\* line 87: doi || url || title
hook_paperKey(pd) ==
    IF pd.doi # <<>> THEN pd.doi ELSE IF pd.url # <<>> THEN pd.url ELSE pd.title

\* lines 84-91: one forEach iteration on uniquePapers
hook_collect(dict, citation) ==
    IF citation.paper_details = <<>> THEN dict
    ELSE LET pd  == citation.paper_details[1]
             key == hook_paperKey(pd)
         IN IF ~HasKey(dict, key) THEN Append(dict, [key |-> key, value |-> pd]) ELSE dict

RECURSIVE hook_uniquePapers(_)
hook_uniquePapers(cs) ==
    IF cs = <<>> THEN <<>>
    ELSE hook_collect(hook_uniquePapers(SubSeq(cs, 1, Len(cs) - 1)), cs[Len(cs)])

\* lines 93-103
formatAuthors(authors, style) ==
    IF authors = <<>> THEN Unknown
    ELSE IF style = "APA"
         THEN (IF Len(authors) = 1 THEN authors[1] ELSE authors[1] \o <<" ", "e", "t", " ", "a", "l", ".">>)
    ELSE IF style = "HARVARD" THEN join(authors, <<",", " ">>)
    ELSE join(authors, <<",", " ">>)

hook_link(pd) == IF pd.doi # <<>> THEN <<"h", "t", "t", "p", "s", ":", "/", "/", "d", "o", "i", ".", "o", "r", "g", "/">> \o pd.doi ELSE pd.url

\* lines 105-125: one reference string
hook_reference(pd, style) ==
    LET authorText == formatAuthors(pd.authors, toUpperCase(style))
        apaLike    == authorText \o <<" ", "(">> \o pd.year \o <<")", ".", " ", "*">> \o pd.title \o <<"*", ".", " ">> \o hook_link(pd)
    IN CASE toUpperCase(style) = "APA" -> apaLike
         [] toUpperCase(style) = "HARVARD" ->
                authorText \o <<" ", "(">> \o pd.year \o <<")", " ", "'">> \o pd.title
                \o <<"'", ",", " ", "*", "O", "n", "l", "i", "n", "e", "*", ".", " ", "A", "v", "a", "i", "l", "a", "b", "l", "e", " ", "a", "t", ":", " ">> \o hook_link(pd)
         [] toUpperCase(style) = "MLA" ->
                authorText \o <<".", " ", "\"">> \o pd.title \o <<".", "\"", " ">> \o pd.year
                \o <<".", " ", "W", "e", "b", ".", " ">> \o hook_link(pd)
         [] toUpperCase(style) = "CHICAGO" ->
                authorText \o <<".", " ", "\"">> \o pd.title \o <<".", "\"", " ">> \o pd.year
                \o <<".", " ">> \o hook_link(pd)
         [] OTHER -> apaLike

\* lines 105-125: the references array
hook_references(cs, style) ==
    LET values == objectValues(hook_uniquePapers(cs))
    IN [i \in 1..Len(values) |-> hook_reference(values[i], style)]

\* lines 81-128
hook_formatReferences(cs, style) == join(hook_references(cs, style), <<"\n", "\n">>)

(***************************************************************************)
(* The two annotators as one process on the same input: the guard of the    *)
(* early return, the sort, then one forEach iteration per step, applied by  *)
(* each annotator to its own accumulator.  Afterwards the caller annotates  *)
(* each result once more with the same citations.                           *)
(***************************************************************************)
TextAlphabet == {"a", "A", " ", "."}

Texts == StrsUpTo(TextAlphabet, MaxTextLen)

Sentences == StrsUpTo(TextAlphabet, MaxSentLen)

PaperDetails(authors, year, title, url, doi) ==
    [authors |-> authors, year |-> year, title |-> title, url |-> url, doi |-> doi]

Paper(authors, year) == PaperDetails(authors, year, <<>>, <<>>, <<>>)

PaperJD == Paper(<< <<"J", " ", "D">> >>, <<"1">>)

PaperNone == Paper(<<>>, <<>>)

PaperDoe == Paper(<< <<"J", "a", "n", "e", " ", "D", "o", "e">> >>, <<"2", "0", "2", "0">>)

Citation(sentence, details, page) ==
    [original_sentence |-> sentence, paper_details |-> details, page_number |-> page]

Cite(sentence, details) == Citation(sentence, details, <<>>)

\* a citation list: nothing, one citation, or two (the second citing another paper)
CitationLists ==
    {<<>>}
    \cup {<<Cite(s, d)>> : s \in Sentences, d \in {<<>>, <<PaperJD>>, <<PaperNone>>}}
    \cup {<<Cite(s1, <<PaperJD>>), Cite(s2, <<PaperNone>>)>> : s1 \in Sentences, s2 \in Sentences}

SkyText == <<"T", "h", "e", " ", "s", "k", "y", " ", "i", "s", " ", "b", "l", "u", "e", ".">>

SkySentence == <<"T", "h", "e", " ", "s", "k", "y", " ", "i", "s", " ", "b", "l", "u", "e">>

\* longer inputs, among them the example of the specification
Examples ==
    { <<SkyText, <<Cite(SkyText, <<PaperDoe>>)>> >>,
      <<SkyText, <<Cite(SkySentence, <<PaperDoe>>)>> >>,
      \* a sentence inside another one, in both input orders
      <<<<"a", " ", "b", " ", "c", ".">>, <<Cite(<<"b">>, <<PaperJD>>), Cite(<<"a", " ", "b", " ", "c">>, <<PaperDoe>>)>> >>,
      <<<<"a", " ", "b", " ", "c", ".">>, <<Cite(<<"a", " ", "b", " ", "c">>, <<PaperDoe>>), Cite(<<"b">>, <<PaperJD>>)>> >>,
      \* two citations of one sentence
      <<<<"a", " ", "b", ".">>, <<Cite(<<"a", " ", "b">>, <<PaperDoe>>), Cite(<<"a", " ", "b">>, <<PaperJD>>)>> >>,
      \* sentences that share their end, or overlap
      <<<<"a", " ", "b", ".">>, <<Cite(<<"a", " ", "b", ".">>, <<PaperDoe>>), Cite(<<"b", ".">>, <<PaperJD>>)>> >>,
      <<<<"a", "b", "c">>, <<Cite(<<"a", "b">>, <<PaperDoe>>), Cite(<<"b", "c">>, <<PaperJD>>)>> >>,
      \* whitespace runs of different length
      <<<<"a", " ", " ", "b">>, <<Cite(<<"a", " ", "b">>, <<PaperDoe>>)>> >>,
      <<<<"a", " ", "b">>, <<Cite(<<"a", " ", " ", "b">>, <<PaperDoe>>)>> >>,
      \* a regex metacharacter in the sentence
      <<<<"a", "x", "b", " ", "a", ".", "b">>, <<Cite(<<"a", ".", "b">>, <<PaperDoe>>)>> >>,
      <<<<"a", "x", "b">>, <<Cite(<<"a", ".", "b">>, <<PaperDoe>>)>> >> }

InitAnnotate ==
    /\ \/ text \in Texts /\ citations \in CitationLists
       \/ \E ex \in Examples : text = ex[1] /\ citations = ex[2]
    /\ sortedCitations = <<>>
    /\ idx = 0
    /\ annotatedText = <<>>
    /\ liveText = <<>>
    /\ prevText = <<>>
    /\ prevLive = <<>>
    /\ reannotated = <<>>
    /\ reannotatedLive = <<>>
    /\ styleGuide = "APA"
    /\ references = <<>>
    /\ liveReferences = <<>>
    /\ document = <<>>
    /\ finalDocument = <<>>
    /\ result = <<>>
    /\ thrown = ""
    /\ processCalls = 0
    /\ objectUrls = 0
    /\ failedStage = ""
    /\ DashboardMounted
    /\ SubscribeIdle
    /\ GateIdle
    /\ AccountIdle
    /\ ConsoleMounted
    /\ PaymentIdle
    /\ pc = "call"

\* lines 43-51 (document) and 30-39 (hooks): the early return, or the sort
AnnotateEnter ==
    /\ pc = "call"
    /\ annotatedText' = text
    /\ liveText' = text
    /\ prevText' = text
    /\ prevLive' = text
    /\ IF text = <<>> \/ citations = <<>>
       THEN /\ pc' = "returned"
            /\ UNCHANGED <<sortedCitations, idx>>
       ELSE /\ pc' = "forEach"
            /\ sortedCitations' = sortByLength(citations)
            /\ idx' = 1
    /\ UNCHANGED <<text, citations, reannotated, reannotatedLive, finalizeVars, dashboardVars, paymentVars, subscribeVars,
                   gateVars, accountVars, consoleVars>>

\* lines 53-85 (document) and 41-57 (hooks): one iteration; after the last
\* one the function returns
AnnotateStep ==
    /\ pc = "forEach"
    /\ idx <= Len(sortedCitations)
    /\ prevText' = annotatedText
    /\ prevLive' = liveText
    /\ annotatedText' = dp_applyCitation(annotatedText, sortedCitations[idx])
    /\ liveText' = hook_applyCitation(liveText, sortedCitations[idx])
    /\ idx' = idx + 1
    /\ pc' = IF idx = Len(sortedCitations) THEN "returned" ELSE "forEach"
    /\ UNCHANGED <<text, citations, sortedCitations, reannotated, reannotatedLive, finalizeVars, dashboardVars, paymentVars, subscribeVars,
                   gateVars, accountVars, consoleVars>>

\* the caller annotates the returned texts once more with the same citations
AnnotateAgain ==
    /\ pc = "returned"
    /\ Len(annotatedText) <= MaxAgainLen
    /\ Len(liveText) <= MaxAgainLen
    /\ reannotated' = dp_annotateTextWithCitation(annotatedText, citations)
    /\ reannotatedLive' = hook_annotateTextWithCitation(liveText, citations)
    /\ pc' = "again"
    /\ UNCHANGED <<text, citations, sortedCitations, idx, annotatedText, liveText,
                   prevText, prevLive, finalizeVars, dashboardVars, paymentVars, subscribeVars,
                   gateVars, accountVars, consoleVars>>

NextAnnotate == AnnotateEnter \/ AnnotateStep \/ AnnotateAgain

SpecAnnotate == InitAnnotate /\ [][NextAnnotate]_vars

(***************************************************************************)
(* Vocabulary of the properties.                                            *)
(***************************************************************************)
Contains(t, s) == \E i \in 0..(Len(t) - Len(s)) : SubSeq(t, i + 1, i + Len(s)) = s

StartsWith(t, s) == Len(s) <= Len(t) /\ SubSeq(t, 1, Len(s)) = s

Substrings(t) == {SubSeq(t, i, j) : i \in 1..(Len(t) + 1), j \in 0..Len(t)}

Remove(seq, i) == SubSeq(seq, 1, i - 1) \o SubSeq(seq, i + 1, Len(seq))

\* a string with its letters lower-cased
LowerCased(s) == [i \in 1..Len(s) |-> Lower(s[i])]

\* a string with every run of whitespace replaced by one space
RECURSIVE Collapsed(_)
Collapsed(s) ==
    IF s = <<>> THEN <<>>
    ELSE IF IsSpace(Head(s)) THEN <<" ">> \o Collapsed(trimStart(s))
    ELSE <<Head(s)>> \o Collapsed(Tail(s))

\* the trimmed sentence occurs in t up to letter case
OccursIgnoringCase(sentence, t) ==
    \E u \in Substrings(t) : LowerCased(u) = LowerCased(trim(sentence))

\* the trimmed sentence occurs in t up to letter case and the length and kind of whitespace runs
OccursLoosely(sentence, t) ==
    \E u \in Substrings(t) : Collapsed(LowerCased(u)) = Collapsed(LowerCased(trim(sentence)))

\* the part of a name after its last space
LastToken(name) ==
    CHOOSE tok \in Substrings(name) :
        /\ \A i \in 1..Len(tok) : tok[i] # " "
        /\ \E k \in 0..Len(name) :
              /\ tok = SubSeq(name, k + 1, Len(name))
              /\ (k = 0 \/ name[k] = " ")

AuthorYear(pd) == <<"(">> \o LastToken(pd.authors[1]) \o <<",", " ">> \o pd.year \o <<")">>

EndsWithPunct(s) == s # <<>> /\ IsPunct(s[Len(s)])

\* a sentence or match without its final '.', '?' or '!', and that character
BodyOf(s) == IF EndsWithPunct(s) THEN SubSeq(s, 1, Len(s) - 1) ELSE s

PunctOf(s) == IF EndsWithPunct(s) THEN <<s[Len(s)]>> ELSE <<>>

\* the citation the last forEach iteration applied
Applied == sortedCitations[idx - 1]

AfterStep == pc \in {"forEach", "returned"} /\ idx > 1

HasAuthorAndYear(c) ==
    /\ c.original_sentence # <<>>
    /\ c.paper_details # <<>>
    /\ c.paper_details[1].authors # <<>>
    /\ c.paper_details[1].year # <<>>

\* a sentence with more than blanks and a final punctuation mark
Worded(c) == trim(BodyOf(trim(c.original_sentence))) # <<>>

AllWorded == \A i \in 1..Len(citations) : Worded(citations[i])

SkyAnnotated == <<"T", "h", "e", " ", "s", "k", "y", " ", "i", "s", " ", "b", "l", "u", "e", " ", "(", "D", "o", "e", ",", " ", "2", "0", "2", "0", ")", ".">>

(***************************************************************************)
(* C1 (as amended).  Document annotator: each time a citation with a first  *)
(* author and a year is applied, the leftmost match of its sentence in the  *)
(* text as it stands (letters compared case-insensitively, whitespace runs  *)
(* matching whitespace runs) is replaced by the matched text without its    *)
(* trailing '.', '?' or '!', one space, "(LastName, Year)", and that        *)
(* punctuation; the text before the match is kept.  Annotating              *)
(* "The sky is blue." with Jane Doe, 2020 yields                            *)
(* "The sky is blue (Doe, 2020).".                                          *)
(***************************************************************************)
C1_MarkerAfterMatch ==
    /\ (AfterStep /\ HasAuthorAndYear(Applied)) =>
          LET atoms == dp_sentenceRegex(Applied.original_sentence)
              starts == {p \in 1..(Len(prevText) + 1) : matchFrom(atoms, 1, prevText, p) # 0}
          IN starts # {} =>
                LET p == CHOOSE q \in starts : \A r \in starts : q <= r
                    m == SubSeq(prevText, p, matchFrom(atoms, 1, prevText, p) - 1)
                IN StartsWith(annotatedText,
                       SubSeq(prevText, 1, p - 1) \o trimEnd(BodyOf(m)) \o <<" ">>
                       \o AuthorYear(Applied.paper_details[1]) \o PunctOf(m))
    /\ (pc = "returned" /\ text = SkyText /\ \A i \in 1..Len(citations) : citations[i].paper_details = <<PaperDoe>>)
          => annotatedText = SkyAnnotated

\* C1 witness: the example of the specification has been annotated
C1_Witness ==
    /\ pc = "returned"
    /\ text = SkyText
    /\ citations = <<Cite(SkySentence, <<PaperDoe>>)>>
    /\ annotatedText = SkyAnnotated

\* C1 as stated (for lists of worded sentences): when the annotator returns,
\* every citation with a first author and a year whose original_sentence occurs
\* verbatim in the input text has its marker directly after the sentence,
\* before its trailing punctuation
C1_AsStated ==
    (pc = "returned" /\ AllWorded) =>
        \A i \in 1..Len(citations) :
            (HasAuthorAndYear(citations[i]) /\ Contains(text, citations[i].original_sentence)) =>
                Contains(annotatedText,
                    trimEnd(BodyOf(citations[i].original_sentence)) \o <<" ">>
                    \o AuthorYear(citations[i].paper_details[1])
                    \o PunctOf(citations[i].original_sentence))

(***************************************************************************)
(* C2 (as amended).  A citation whose trimmed original_sentence does not    *)
(* occur in the text as it stands when the citation is applied (letters     *)
(* compared case-insensitively and, in the document annotator, whitespace   *)
(* runs compared as equal) leaves that text unchanged; the iteration goes   *)
(* on with the next citation.                                               *)
(***************************************************************************)
C2_AbsentSentenceLeavesText ==
    AfterStep =>
        /\ ~OccursLoosely(Applied.original_sentence, prevText) => annotatedText = prevText
        /\ ~OccursIgnoringCase(Applied.original_sentence, prevLive) => liveText = prevLive

\* C2 witness: of two citations the second was applied to a text that does not
\* hold its sentence and left it as the first one's insertion had made it
C2_Witness ==
    /\ pc = "returned"
    /\ idx = 3
    /\ Applied.original_sentence # <<>>
    /\ Applied.paper_details # <<>>
    /\ ~OccursLoosely(Applied.original_sentence, prevText)
    /\ ~OccursIgnoringCase(Applied.original_sentence, prevLive)
    /\ annotatedText = prevText /\ annotatedText # text
    /\ liveText = prevLive /\ liveText # text

\* C2 as stated (for lists of worded sentences): a citation whose
\* original_sentence does not appear verbatim in the input text contributes
\* nothing: the result is that of the other citations
C2_AsStated ==
    (pc = "returned" /\ AllWorded) =>
        \A i \in 1..Len(citations) :
            ~Contains(text, citations[i].original_sentence) =>
                /\ annotatedText = dp_annotateTextWithCitation(text, Remove(citations, i))
                /\ liveText = hook_annotateTextWithCitation(text, Remove(citations, i))

(***************************************************************************)
(* C3.  Annotation is idempotent: annotating the result again with the same *)
(* citations (of worded sentences) returns the result unchanged, in both    *)
(* annotators.                                                              *)
(***************************************************************************)
C3_Idempotent ==
    (pc = "again" /\ AllWorded) => (reannotated = annotatedText /\ reannotatedLive = liveText)


(***************************************************************************)
(* lib/documentProcessor.ts: createWordDocument, processDocument and        *)
(* handleFinalize; hooks/annotateTextWithCitations.ts:                      *)
(* createDocumentWithCitations.                                             *)
(***************************************************************************)
\* text.split('\n')
RECURSIVE splitLines(_)
splitLines(t) ==
    IF \A i \in 1..Len(t) : t[i] # "\n" THEN <<t>>
    ELSE LET k == CHOOSE i \in 1..Len(t) : t[i] = "\n" /\ \A j \in 1..(i - 1) : t[j] # "\n"
         IN <<SubSeq(t, 1, k - 1)>> \o splitLines(SubSeq(t, k + 1, Len(t)))

\* the lines of the annotated text, blank ones kept
nonBlankLines_blankKept(t) == splitLines(t)

\* lines 183: the lines of the annotated text that are not blank
nonBlankLines(t) == SelectSeq(splitLines(t), LAMBDA line : trim(line) # <<>>)

\* lines 182-225: the children of the document's only section
createWordDocument(annotated, referencesChildren) ==
    [i \in 1..Len(nonBlankLines(annotated)) |->
        [heading |-> FALSE, children |-> <<TextRun(nonBlankLines(annotated)[i])>>]]
    \o <<[heading |-> TRUE, children |-> <<TextRun(<<"R", "e", "f", "e", "r", "e", "n", "c", "e", "s">>)>>]>>
    \o [i \in 1..Len(referencesChildren) |->
        [heading |-> FALSE, children |-> referencesChildren[i]]]

\* lines 61-78 of the hook: the template around the two parts
hook_finalDocument(annotated, formattedReferences) ==
    <<"\n">> \o annotated \o <<"\n", "\n", "R", "e", "f", "e", "r", "e", "n", "c", "e", "s", "\n", "-", "-", "-", "-", "-", "-", "-", "-", "-", "-", "\n">> \o formattedReferences \o <<"\n", " ", " ">>

MaxRefCits == 2

PaperFull == PaperDetails(<<<<"K", " ", "L">>, <<"M">>>>, <<"1">>, <<"T">>, <<"u">>, <<"d">>)

PaperSameDoi == PaperDetails(<<<<"M">>>>, <<"2">>, <<"V">>, <<"w">>, <<"d">>)

PaperUrlOnly == PaperDetails(<<<<"K", " ", "L">>>>, <<>>, <<"T">>, <<"u">>, <<>>)

PaperSameUrl == PaperDetails(<<<<"M">>>>, <<"2">>, <<"V">>, <<"u">>, <<>>)

PaperSeven == PaperDetails(<<>>, <<>>, <<"7">>, <<>>, <<>>)

PaperThree == PaperDetails(<<<<"M">>>>, <<"1">>, <<"3">>, <<>>, <<>>)

PaperSameTitle == PaperDetails(<<<<"K", " ", "L">>>>, <<"2">>, <<"3">>, <<>>, <<>>)

PaperBareL == PaperDetails(<<<<"K", " ", "L">>>>, <<"1">>, <<>>, <<>>, <<>>)

PaperBareM == PaperDetails(<<<<"M">>>>, <<"1">>, <<>>, <<>>, <<>>)

PaperPool == {PaperFull, PaperSameDoi, PaperUrlOnly, PaperSameUrl, PaperSeven, PaperThree,
              PaperSameTitle, PaperBareL, PaperBareM}

PagedPapers == {PaperFull, PaperSameDoi, PaperBareL}

CitationPool ==
    {Citation(<<"a">>, <<pd>>, <<>>) : pd \in PaperPool}
    \cup {Citation(<<"a">>, <<pd>>, <<"5">>) : pd \in PagedPapers}
    \cup {Citation(<<"a">>, <<>>, <<>>)}

AcceptedLists == UNION {[1..n -> CitationPool] : n \in 0..MaxRefCits}

StyleGuides == {"APA", "MLA", "Chicago", "Harvard", "IEEE"}

RawTexts == {<<>>, <<"a", ".">>, <<"a", "\n", " ", "\n", ".">>}

InitFinalize ==
    /\ text \in RawTexts
    /\ citations \in AcceptedLists
    /\ styleGuide \in StyleGuides
    /\ sortedCitations = <<>>
    /\ idx = 0
    /\ annotatedText = <<>>
    /\ liveText = <<>>
    /\ prevText = <<>>
    /\ prevLive = <<>>
    /\ reannotated = <<>>
    /\ reannotatedLive = <<>>
    /\ references = <<>>
    /\ liveReferences = <<>>
    /\ document = <<>>
    /\ finalDocument = <<>>
    /\ result = <<>>
    /\ thrown = ""
    /\ processCalls = 0
    /\ objectUrls = 0
    /\ failedStage = ""
    /\ DashboardMounted
    /\ SubscribeIdle
    /\ GateIdle
    /\ AccountIdle
    /\ ConsoleMounted
    /\ PaymentIdle
    /\ pc = "call"

unchangedByFinalize == <<text, citations, styleGuide, sortedCitations, idx, prevText, prevLive,
                         reannotated, reannotatedLive, dashboardVars,
                         paymentVars, subscribeVars, gateVars, accountVars, consoleVars>>

\* nothingToProcess that looks at the content only
nothingToProcess_contentOnly(content, accepted) == content = <<>>

\* handleFinalize, line 236: !extract?.data?.content || acceptedCitations.length === 0
nothingToProcess(content, accepted) == content = <<>> \/ Len(accepted) = 0

\* handleFinalize, line 236: nothing to process
FinalizeReject ==
    /\ pc = "call"
    /\ nothingToProcess(text, citations)
    /\ thrown' = "No content or citations to process"
    /\ pc' = "thrown"
    /\ UNCHANGED <<unchangedByFinalize, annotatedText, liveText, references, liveReferences,
                   document, finalDocument, result, processCalls, objectUrls, failedStage>>

\* handleFinalize, lines 240-245: processDocument is called
FinalizeEnter ==
    /\ pc = "call"
    /\ ~nothingToProcess(text, citations)
    /\ processCalls' = processCalls + 1
    /\ pc' = "processDocument"
    /\ UNCHANGED <<unchangedByFinalize, annotatedText, liveText, references, liveReferences,
                   document, finalDocument, result, thrown, objectUrls, failedStage>>

\* processDocument, lines 27-29: the synchronous part up to Packer.toBlob
ProcessDocument ==
    /\ pc = "processDocument"
    /\ annotatedText' = dp_annotateTextWithCitation(text, citations)
    /\ references' = dp_formatReferences(citations, styleGuide)
    /\ document' = createWordDocument(annotatedText', references')
    /\ pc' = "toBlob"
    /\ UNCHANGED <<unchangedByFinalize, liveText, liveReferences, finalDocument, result, thrown,
                   processCalls, objectUrls, failedStage>>

\* the steps of the try block of processDocument, lines 27-29, in order
SynchronousStages == <<"annotateTextWithCitation", "formatReferences", "createWordDocument">>

\* processDocument, lines 27-29 and 32-35, handleFinalize, lines 255-258: a step throws
ProcessDocumentThrows ==
    /\ pc = "processDocument"
    /\ \E k \in 1..Len(SynchronousStages) :
          /\ failedStage' = SynchronousStages[k]
          /\ annotatedText' = IF k > 1 THEN dp_annotateTextWithCitation(text, citations)
                              ELSE annotatedText
          /\ references' = IF k > 2 THEN dp_formatReferences(citations, styleGuide)
                           ELSE references
    /\ thrown' = "Failed to process document"
    /\ pc' = "thrown"
    /\ UNCHANGED <<unchangedByFinalize, liveText, liveReferences, document, finalDocument,
                   result, processCalls, objectUrls>>

\* processDocument, lines 30-31 and handleFinalize, lines 246-254
PackerResolves ==
    /\ pc = "toBlob"
    /\ objectUrls' = objectUrls + 1
    /\ result' = <<[citationCount  |-> Len(citations),
                    referenceCount |-> getUniqueReferencesCount(citations)]>>
    /\ pc' = "returned"
    /\ UNCHANGED <<unchangedByFinalize, annotatedText, liveText, references, liveReferences,
                   document, finalDocument, thrown, processCalls, failedStage>>

\* processDocument, lines 32-35 and handleFinalize, lines 255-258
PackerRejects ==
    /\ pc = "toBlob"
    /\ failedStage' = "Packer.toBlob"
    /\ thrown' = "Failed to process document"
    /\ pc' = "thrown"
    /\ UNCHANGED <<unchangedByFinalize, annotatedText, liveText, references, liveReferences,
                   document, finalDocument, result, processCalls, objectUrls>>

\* hooks/annotateTextWithCitations.ts, lines 60-78
CreateDocumentWithCitations ==
    /\ pc = "call"
    /\ liveText' = hook_annotateTextWithCitation(text, citations)
    /\ liveReferences' = hook_references(citations, styleGuide)
    /\ finalDocument' = hook_finalDocument(liveText', hook_formatReferences(citations, styleGuide))
    /\ pc' = "composed"
    /\ UNCHANGED <<unchangedByFinalize, annotatedText, references, document, result, thrown,
                   processCalls, objectUrls, failedStage>>

NextFinalize ==
    \/ FinalizeReject
    \/ FinalizeEnter
    \/ ProcessDocument
    \/ ProcessDocumentThrows
    \/ PackerResolves
    \/ PackerRejects
    \/ CreateDocumentWithCitations

SpecFinalize == InitFinalize /\ [][NextFinalize]_vars


(***************************************************************************)
(* Vocabulary of the properties of the reference list                       *)
(***************************************************************************)
\* formatReferences has run in the call of handleFinalize
Formatted ==
    \/ pc \in {"toBlob", "returned"}
    \/ pc = "thrown" /\ failedStage \in {"createWordDocument", "Packer.toBlob"}

\* createDocumentWithCitations has returned
Composed == pc = "composed"

\* the paper details of the citations that have any, in citation order
CitedPapers ==
    LET withDetails == SelectSeq(citations, LAMBDA c : c.paper_details # <<>>)
    IN [i \in 1..Len(withDetails) |-> withDetails[i].paper_details[1]]

\* the identity key as the specification words it: the DOI, else the URL, else the title
StatedKey(pd) == IF pd.doi # <<>> THEN pd.doi ELSE IF pd.url # <<>> THEN pd.url ELSE pd.title

StatedKeys == {StatedKey(CitedPapers[i]) : i \in 1..Len(CitedPapers)}

\* the papers that have neither DOI nor URL nor title
Unkeyed == {pd \in {CitedPapers[i] : i \in 1..Len(CitedPapers)} : StatedKey(pd) = <<>>}

ReferenceParagraphs ==
    LET h == CHOOSE i \in 1..Len(document) : document[i].heading
    IN SubSeq(document, h + 1, Len(document))

(***************************************************************************)
(* C6.  When handleFinalize returns, statistics.referenceCount equals the   *)
(* number of reference paragraphs in the generated document.                *)
(***************************************************************************)
C6_ReferenceCountMatches ==
    pc = "returned" => result[1].referenceCount = Len(ReferenceParagraphs)

(***************************************************************************)
(* C7.  A style guide name that is not a recognised style is rendered by    *)
(* both formatters exactly as 'APA' is.                                     *)
(***************************************************************************)
C7_UnrecognisedRendersAsAPA ==
    styleGuide = "IEEE" =>
        /\ Formatted => references = dp_formatReferences(citations, "APA")
        /\ Composed => liveReferences = hook_references(citations, "APA")

\* the papers of the reference list of the document formatter, in list order
ListedPapers == objectValues(dp_uniquePapersData(citations))

(***************************************************************************)
(* C8.  Document formatter: the reference of a paper without authors starts *)
(* with "Unknown Author", the reference of a paper without a year shows     *)
(* "n.d." as its year, and in APA the reference of a paper without either   *)
(* begins "Unknown Author (n.d.). "; the in-text marker of a citation       *)
(* without a year, whose sentence occurs in the text, reads                 *)
(* "(LastName, n.d.)".                                                      *)
(***************************************************************************)
C8_UnknownAuthorAndNoDate ==
    Formatted =>
        /\ Len(references) = Len(ListedPapers)
        /\ \A i \in 1..Len(references) :
              LET pd    == ListedPapers[i].paper
                  first == references[i][1].text
              IN /\ pd.authors = <<>> => StartsWith(first, <<"U", "n", "k", "n", "o", "w", "n", " ", "A", "u", "t", "h", "o", "r">>)
                 /\ pd.year = <<>> /\ toUpperCase(styleGuide) \notin {"MLA", "CHICAGO"}
                       => Contains(first, <<" ", "(", "n", ".", "d", ".", ")", ".", " ">>)
                 /\ pd.year = <<>> /\ toUpperCase(styleGuide) \in {"MLA", "CHICAGO"}
                       => Contains(first, <<".", "\"", " ", "n", ".", "d", ".">>)
                 /\ pd.authors = <<>> /\ pd.year = <<>> /\ styleGuide = "APA"
                       => first = <<"U", "n", "k", "n", "o", "w", "n", " ", "A", "u", "t", "h", "o", "r", " ", "(", "n", ".", "d", ".", ")", ".", " ">>
        /\ \A i \in 1..Len(CitedPapers) :
              CitedPapers[i].year = <<>> =>
                  Contains(annotatedText,
                           <<"(">> \o (IF CitedPapers[i].authors = <<>> THEN <<"U", "n", "k", "n", "o", "w", "n">>
                                     ELSE LastToken(CitedPapers[i].authors[1]))
                           \o <<",", " ", "n", ".", "d", ".", ")">>)

C8_Witness ==
    /\ pc = "returned"
    /\ styleGuide = "APA"
    /\ citations = <<Citation(<<"a">>, <<PaperSeven>>, <<>>)>>
    /\ references[1][1].text = <<"U", "n", "k", "n", "o", "w", "n", " ", "A", "u", "t", "h", "o", "r", " ", "(", "n", ".", "d", ".", ")", ".", " ">>
    /\ annotatedText = <<"a", " ", "(", "U", "n", "k", "n", "o", "w", "n", ",", " ", "n", ".", "d", ".", ")", ".">>

\* the citations with paper_details whose stated key occurs for the first time
FirstCitations ==
    LET withDetails == SelectSeq(citations, LAMBDA c : c.paper_details # <<>>)
        isFirst(i)  == \A j \in 1..(i - 1) :
                          StatedKey(withDetails[j].paper_details[1])
                              # StatedKey(withDetails[i].paper_details[1])
        RECURSIVE pick(_)
        pick(i) == IF i > Len(withDetails) THEN <<>>
                   ELSE (IF isFirst(i) THEN <<withDetails[i]>> ELSE <<>>) \o pick(i + 1)
    IN pick(1)

(***************************************************************************)
(* C9.  The reference list holds the unique papers in the order in which    *)
(* their identity keys first occur in the citation list, each rendered from *)
(* the details of its first citation.                                       *)
(***************************************************************************)
C9_FirstOccurrenceOrder ==
    /\ Formatted =>
          references = [i \in 1..Len(FirstCitations) |->
                           dp_children([paper       |-> FirstCitations[i].paper_details[1],
                                        page_number |-> FirstCitations[i].page_number],
                                       styleGuide)]
    /\ Composed =>
          liveReferences = [i \in 1..Len(FirstCitations) |->
                               hook_reference(FirstCitations[i].paper_details[1], styleGuide)]


(***************************************************************************)
(* app/QueryProvider.tsx: the dashboard (Page) with the suggestion box of   *)
(* CitationSuggestionBox.  citationSuggestionsData holds the list           *)
(* data.citations.flat() of the response.                                   *)
(***************************************************************************)
Suggestion(id, sentence, details) ==
    [id |-> id, original_sentence |-> sentence, paper_details |-> details,
     status |-> "pending", page_number |-> <<>>]

SuggestionOne == Suggestion("1", <<"a">>, <<Paper(<<<<"K", " ", "L">>>>, <<"1">>)>>)

SuggestionTwo == Suggestion("2", <<"b">>, <<Paper(<<<<"M">>>>, <<"2">>)>>)

SuggestionThree == Suggestion("3", <<"a">>, <<Paper(<<>>, <<>>)>>)

\* a suggestion of a later response that reuses an id
SuggestionOneAgain == Suggestion("1", <<"b">>, <<Paper(<<<<"M">>>>, <<"2">>)>>)

SuggestionResponses ==
    {<<>>, <<SuggestionOne, SuggestionTwo>>, <<SuggestionOneAgain, SuggestionThree>>}

Files == {"f1", "f2"}

\* the content the extract endpoint returns for a file
FileContent(file) == IF file = "f1" THEN <<"a", ".">> ELSE <<"b", " ", "a">>

Tabs == {"suggestions", "settings", "references"}

InitDashboard ==
    /\ DashboardMounted
    /\ SubscribeIdle
    /\ GateIdle
    /\ AccountIdle
    /\ ConsoleMounted
    /\ PaymentIdle
    /\ text = <<>>
    /\ citations = <<>>
    /\ sortedCitations = <<>>
    /\ idx = 0
    /\ annotatedText = <<>>
    /\ liveText = <<>>
    /\ prevText = <<>>
    /\ prevLive = <<>>
    /\ reannotated = <<>>
    /\ reannotatedLive = <<>>
    /\ styleGuide = "APA"
    /\ references = <<>>
    /\ liveReferences = <<>>
    /\ document = <<>>
    /\ finalDocument = <<>>
    /\ result = <<>>
    /\ thrown = ""
    /\ processCalls = 0
    /\ objectUrls = 0
    /\ failedStage = ""
    /\ pc = "dashboard"

unchangedByDashboard == <<text, citations, annotateVars, finalizeVars, paymentVars,
                          subscribeVars, gateVars, accountVars, consoleVars, pc>>

HasId(list, id) == \E i \in 1..Len(list) : list[i].id = id

\* lines 148-173: the extract query is fetching
isLoadingExtract == uploadedFiles # <<>> /\ extractResult = <<>>

\* suggestionsToDisplay that keeps the dismissed suggestions on display
suggestionsToDisplay_dismissedShown ==
    IF citationSuggestionsData = <<>> THEN <<>>
    ELSE SelectSeq(citationSuggestionsData[1], LAMBDA c : ~HasId(acceptedCitations, c.id))

\* lines 257-262
suggestionsToDisplay ==
    IF citationSuggestionsData = <<>> THEN <<>>
    ELSE SelectSeq(citationSuggestionsData[1],
                   LAMBDA c : ~HasId(acceptedCitations, c.id) /\ ~HasId(dismissedCitations, c.id))

\* lines 561-571 and CitationSuggestionBox, line 141: the suggestions are listed with their buttons
BoxShown == activeTab = "suggestions" /\ ~isPayment /\ ~(isLoadingSuggestions \/ isLoadingExtract)

\* lines 561 and 613: an 'Accept All' and a 'Finalize' button are shown
BarShown ==
    /\ activeTab = "suggestions"
    /\ ~isPayment
    /\ ~isLoadingSuggestions \/ ~(isLoadingSuggestions \/ isLoadingExtract)

\* line 464: a file is chosen; the extract query starts under its new key
UploadFiles ==
    /\ pc = "dashboard"
    /\ uploadedFiles = <<>>
    /\ \E file \in Files : uploadedFiles' = <<file>>
    /\ extractResult' = <<>>
    /\ UNCHANGED <<isLoadingSuggestions, citationSuggestionsData, acceptedCitations,
                   dismissedCitations, pageAnnotatedText, activeTab, isPayment,
                   unchangedByDashboard>>

\* lines 148-173 and the effect of lines 206-214: the extract query gets its data
ExtractResolves ==
    /\ pc = "dashboard"
    /\ isLoadingExtract
    /\ extractResult' = <<FileContent(uploadedFiles[1])>>
    /\ pageAnnotatedText' = FileContent(uploadedFiles[1])
    /\ UNCHANGED <<uploadedFiles, isLoadingSuggestions, citationSuggestionsData,
                   acceptedCitations, dismissedCitations, activeTab, isPayment,
                   unchangedByDashboard>>

\* lines 238-255: handleWorkMagic with a category selected
WorkMagic ==
    /\ pc = "dashboard"
    /\ uploadedFiles # <<>>
    /\ isLoadingSuggestions' = TRUE
    /\ activeTab' = "suggestions"
    /\ UNCHANGED <<uploadedFiles, extractResult, citationSuggestionsData, acceptedCitations,
                   dismissedCitations, pageAnnotatedText, isPayment, unchangedByDashboard>>

\* lines 131-141: the suggestions query gets its data
SuggestionsResolve ==
    /\ pc = "dashboard"
    /\ isLoadingSuggestions
    /\ \E response \in SuggestionResponses : citationSuggestionsData' = <<response>>
    /\ isLoadingSuggestions' = FALSE
    /\ UNCHANGED <<uploadedFiles, extractResult, acceptedCitations, dismissedCitations,
                   pageAnnotatedText, activeTab, isPayment, unchangedByDashboard>>

\* CitationSuggestionBox, lines 107-113, and Page, lines 286-299
handleAcceptCitation(suggestion) ==
    LET citation == [suggestion EXCEPT !.status = "accepted"]
        updated  == Append(acceptedCitations, citation)
    IN IF HasId(acceptedCitations, citation.id)
       THEN UNCHANGED <<acceptedCitations, pageAnnotatedText>>
       ELSE /\ acceptedCitations' = updated
            /\ pageAnnotatedText' =
                  IF extractResult # <<>> /\ extractResult[1] # <<>>
                  THEN hook_annotateTextWithCitation(extractResult[1], updated)
                  ELSE pageAnnotatedText

AcceptCitation ==
    /\ pc = "dashboard"
    /\ BoxShown
    /\ \E i \in 1..Len(suggestionsToDisplay) : handleAcceptCitation(suggestionsToDisplay[i])
    /\ UNCHANGED <<uploadedFiles, extractResult, isLoadingSuggestions, citationSuggestionsData,
                   dismissedCitations, activeTab, isPayment, unchangedByDashboard>>

\* CitationSuggestionBox, lines 116-119, and Page, lines 301-304
handleDismissCitation(citation) ==
    /\ dismissedCitations' = Append(dismissedCitations, citation)
    /\ acceptedCitations' = SelectSeq(acceptedCitations, LAMBDA c : c.id # citation.id)

DismissCitation ==
    /\ pc = "dashboard"
    /\ BoxShown
    /\ \E i \in 1..Len(suggestionsToDisplay) : handleDismissCitation(suggestionsToDisplay[i])
    /\ UNCHANGED <<uploadedFiles, extractResult, isLoadingSuggestions, citationSuggestionsData,
                   pageAnnotatedText, activeTab, isPayment, unchangedByDashboard>>

\* CitationSuggestionBox, lines 122-130, and Page, lines 264-284
AcceptAll ==
    /\ pc = "dashboard"
    /\ BarShown
    /\ IF citationSuggestionsData = <<>>
       THEN UNCHANGED <<acceptedCitations, pageAnnotatedText>>
       ELSE LET newAccepted == SelectSeq(citationSuggestionsData[1],
                                         LAMBDA c : /\ ~HasId(acceptedCitations, c.id)
                                                    /\ ~HasId(dismissedCitations, c.id))
                updatedAcceptedCitations == acceptedCitations \o newAccepted
            IN /\ acceptedCitations' = updatedAcceptedCitations
               /\ pageAnnotatedText' =
                     IF extractResult # <<>> /\ extractResult[1] # <<>>
                     THEN hook_annotateTextWithCitation(extractResult[1],
                                                        updatedAcceptedCitations)
                     ELSE pageAnnotatedText
    /\ UNCHANGED <<uploadedFiles, extractResult, isLoadingSuggestions, citationSuggestionsData,
                   dismissedCitations, activeTab, isPayment, unchangedByDashboard>>

\* lines 306-312: handleFinalizeDocument
FinalizeDocument ==
    /\ pc = "dashboard"
    /\ BarShown
    /\ isPayment' = (Len(acceptedCitations) >= 1)
    /\ UNCHANGED <<uploadedFiles, extractResult, isLoadingSuggestions, citationSuggestionsData,
                   acceptedCitations, dismissedCitations, pageAnnotatedText, activeTab,
                   unchangedByDashboard>>

\* lines 423-433: the Reupload button; the extract query has no data under the key without a file
Reupload ==
    /\ pc = "dashboard"
    /\ uploadedFiles' = <<>>
    /\ extractResult' = <<>>
    /\ activeTab' = "settings"
    /\ isPayment' = FALSE
    /\ UNCHANGED <<isLoadingSuggestions, citationSuggestionsData, acceptedCitations,
                   dismissedCitations, pageAnnotatedText, unchangedByDashboard>>

\* lines 537-552: the tab buttons
SetActiveTab ==
    /\ pc = "dashboard"
    /\ \E tab \in Tabs : activeTab' = tab
    /\ UNCHANGED <<uploadedFiles, extractResult, isLoadingSuggestions, citationSuggestionsData,
                   acceptedCitations, dismissedCitations, pageAnnotatedText, isPayment,
                   unchangedByDashboard>>

NextDashboard ==
    \/ UploadFiles
    \/ ExtractResolves
    \/ WorkMagic
    \/ SuggestionsResolve
    \/ AcceptCitation
    \/ DismissCitation
    \/ AcceptAll
    \/ FinalizeDocument
    \/ Reupload
    \/ SetActiveTab

SpecDashboard == InitDashboard /\ [][NextDashboard]_vars

(***************************************************************************)
(* C5.  In the dashboard no citation id is at any time both in              *)
(* acceptedCitations and in dismissedCitations.                             *)
(***************************************************************************)
C5_AcceptedDismissedDisjoint ==
    \A i \in 1..Len(acceptedCitations) :
        \A j \in 1..Len(dismissedCitations) :
            acceptedCitations[i].id # dismissedCitations[j].id

C5_Witness ==
    /\ \E i \in 1..Len(acceptedCitations) : acceptedCitations[i].status = "accepted"
    /\ \E i \in 1..Len(acceptedCitations) : acceptedCitations[i].status = "pending"
    /\ HasId(dismissedCitations, "1")
    /\ citationSuggestionsData # <<>>
    /\ HasId(citationSuggestionsData[1], "1")


(***************************************************************************)
(* app/components/FlutterWaveButton.tsx: verifyPaymentWithRetry             *)
(***************************************************************************)
maxRetries == 3

backoffUnit == 2000

\* a response of verifyAllPayment: res.data.status, res.data.data.status, res.data.message
Response(status, dataStatus, message) ==
    [rejected |-> FALSE, name |-> "", status |-> status, dataStatus |-> dataStatus,
     message |-> message]

\* an error verifyAllPayment rejects with
Rejection(name, message) ==
    [rejected |-> TRUE, name |-> name, status |-> "", dataStatus |-> "", message |-> message]

Responses ==
    {Response("success", "", <<>>),
     Response("", "successful", <<>>),
     Response("", "", <<"S", "u", "c", "c", "e", "s", "s">>),
     Response("failed", "failed", <<"F", "a", "i", "l", "e", "d">>),
     Response("failed", "failed", <<"P", "a", "y", "m", "e", "n", "t", " ", "u", "n", "s", "u", "c", "c", "e", "s", "s", "f", "u", "l">>),
     Response("pending", "", <<>>)}

Rejections ==
    {Rejection("AxiosError", <<"N", "e", "t", "w", "o", "r", "k", " ", "E", "r", "r", "o", "r">>),
     Rejection("AxiosError", <<"t", "i", "m", "e", "o", "u", "t">>),
     Rejection("NetworkError", <<>>)}

NoResponse == Response("", "", <<>>)

\* the entries of paymentLog
Timer(ms) == [kind |-> "setTimeout", ms |-> ms, response |-> NoResponse, text |-> <<>>]

Request == [kind |-> "verifyAllPayment", ms |-> 0, response |-> NoResponse, text |-> <<>>]

Settled(r) == [kind |-> "settled", ms |-> 0, response |-> r, text |-> <<>>]

ToastSuccess == [kind |-> "toast.success", ms |-> 0, response |-> NoResponse,
                 text |-> <<"P", "a", "y", "m", "e", "n", "t", " ", "v", "e", "r", "i", "f", "i", "e", "d", " ", "s", "u", "c", "c", "e", "s", "s", "f", "u", "l", "l", "y", "!">>]

ToastError(t) == [kind |-> "toast.error", ms |-> 0, response |-> NoResponse, text |-> t]

OnSuccess(r) == [kind |-> "onSuccess", ms |-> 0, response |-> r, text |-> <<>>]

\* String.prototype.toLowerCase and includes
includesLower(message, word) ==
    \E i \in 0..(Len(message) - Len(word)) :
        [k \in 1..Len(word) |-> Lower(message[i + k])] = word

\* backoffDelay without the growth per attempt
backoffDelay_fixed(k) == backoffUnit

\* line 91: the delay before attempt k
backoffDelay(k) == backoffUnit * k

\* judgedSuccessful that takes every answer for a success
judgedSuccessful_anyAnswer(r) == TRUE

\* lines 96-98
judgedSuccessful(r) ==
    \/ r.status = "success"
    \/ r.dataStatus = "successful"
    \/ includesLower(r.message, <<"s", "u", "c", "c", "e", "s", "s">>)

\* line 105: the Error thrown for the last response
lastAttemptError(r) ==
    Rejection("Error", IF r.message # <<>> THEN r.message
                       ELSE <<"P", "a", "y", "m", "e", "n", "t", " ", "v", "e", "r", "i", "f", "i", "c", "a", "t", "i", "o", "n", " ", "f", "a", "i", "l", "e", "d", " ", "a", "f", "t", "e", "r", " ", "3", " ", "a", "t", "t", "e", "m", "p", "t", "s">>)

\* lines 110-118: the toast of the last attempt
errorToast(error, onLine) ==
    IF \/ error.name = "NetworkError"
       \/ ~onLine
       \/ includesLower(error.message, <<"n", "e", "t", "w", "o", "r", "k">>)
       \/ includesLower(error.message, <<"c", "o", "n", "n", "e", "c", "t", "i", "o", "n">>)
    THEN ToastError(<<"N", "e", "t", "w", "o", "r", "k", " ", "e", "r", "r", "o", "r", " ", "d", "u", "r", "i", "n", "g", " ", "v", "e", "r", "i", "f", "i", "c", "a", "t", "i", "o", "n", ".", " ", "P", "l", "e", "a", "s", "e", " ", "c", "h", "e", "c", "k", " ", "y", "o", "u", "r", " ", "c", "o", "n", "n", "e", "c", "t", "i", "o", "n", " ", "a", "n", "d", " ", "c", "o", "n", "t", "a", "c", "t", " ", "s", "u", "p", "p", "o", "r", "t", " ", "i", "f", " ", "p", "a", "y", "m", "e", "n", "t", " ", "w", "a", "s", " ", "d", "e", "d", "u", "c", "t", "e", "d", ".">>)
    ELSE ToastError(IF error.message # <<>> THEN error.message
                    ELSE <<"P", "a", "y", "m", "e", "n", "t", " ", "v", "e", "r", "i", "f", "i", "c", "a", "t", "i", "o", "n", " ", "f", "a", "i", "l", "e", "d", ".", " ", "P", "l", "e", "a", "s", "e", " ", "c", "o", "n", "t", "a", "c", "t", " ", "s", "u", "p", "p", "o", "r", "t", " ", "i", "f", " ", "p", "a", "y", "m", "e", "n", "t", " ", "w", "a", "s", " ", "d", "e", "d", "u", "c", "t", "e", "d", ".">>)

InitPayment ==
    /\ DashboardMounted
    /\ SubscribeIdle
    /\ GateIdle
    /\ AccountIdle
    /\ ConsoleMounted
    /\ text = <<>>
    /\ citations = <<>>
    /\ sortedCitations = <<>>
    /\ idx = 0
    /\ annotatedText = <<>>
    /\ liveText = <<>>
    /\ prevText = <<>>
    /\ prevLive = <<>>
    /\ reannotated = <<>>
    /\ reannotatedLive = <<>>
    /\ styleGuide = "APA"
    /\ references = <<>>
    /\ liveReferences = <<>>
    /\ document = <<>>
    /\ finalDocument = <<>>
    /\ result = <<>>
    /\ thrown = ""
    /\ processCalls = 0
    /\ objectUrls = 0
    /\ failedStage = ""
    /\ attempt = 1
    /\ paymentLog = <<>>
    /\ returned = <<>>
    /\ pc = "for"

unchangedByPayment == <<text, citations, annotateVars, finalizeVars, dashboardVars,
                        subscribeVars, gateVars, accountVars, consoleVars>>

\* lines 86-92: the loop condition and the timer before a repeated attempt
AttemptBegins ==
    /\ pc = "for"
    /\ IF attempt <= maxRetries
       THEN /\ paymentLog' = IF attempt > 1
                             THEN Append(paymentLog, Timer(backoffDelay(attempt)))
                             ELSE paymentLog
            /\ pc' = "verify"
            /\ UNCHANGED returned
       ELSE /\ returned' = <<FALSE>>
            /\ pc' = "done"
            /\ UNCHANGED paymentLog
    /\ UNCHANGED <<attempt, unchangedByPayment>>

\* line 94: the request is sent
VerifyAllPayment ==
    /\ pc = "verify"
    /\ paymentLog' = Append(paymentLog, Request)
    /\ pc' = "await"
    /\ UNCHANGED <<attempt, returned, unchangedByPayment>>

\* the catch block, lines 108-121, for an error of this attempt
catch(log, error) ==
    IF attempt = maxRetries
    THEN /\ \E onLine \in BOOLEAN : paymentLog' = Append(log, errorToast(error, onLine))
         /\ returned' = <<FALSE>>
         /\ pc' = "done"
         /\ UNCHANGED attempt
    ELSE /\ paymentLog' = log
         /\ attempt' = attempt + 1
         /\ pc' = "for"
         /\ UNCHANGED returned

\* lines 96-106: the request is answered
VerifyResolves ==
    /\ pc = "await"
    /\ \E r \in Responses :
          LET log == Append(paymentLog, Settled(r))
          IN IF judgedSuccessful(r)
             THEN /\ paymentLog' = log \o <<ToastSuccess, OnSuccess(r)>>
                  /\ returned' = <<TRUE>>
                  /\ pc' = "done"
                  /\ UNCHANGED attempt
             ELSE IF attempt = maxRetries
             THEN catch(log, lastAttemptError(r))
             ELSE /\ paymentLog' = log
                  /\ attempt' = attempt + 1
                  /\ pc' = "for"
                  /\ UNCHANGED returned
    /\ UNCHANGED unchangedByPayment

\* lines 108-121: the request fails
VerifyRejects ==
    /\ pc = "await"
    /\ \E e \in Rejections : catch(Append(paymentLog, Settled(e)), e)
    /\ UNCHANGED unchangedByPayment

NextPayment ==
    \/ AttemptBegins
    \/ VerifyAllPayment
    \/ VerifyResolves
    \/ VerifyRejects

SpecPayment == InitPayment /\ [][NextPayment]_vars

(***************************************************************************)
(* Vocabulary of the properties of the payment verification                 *)
(***************************************************************************)
IndicesOf(kind) == {i \in 1..Len(paymentLog) : paymentLog[i].kind = kind}

\* the number of requests sent up to entry i of the log
RequestsUpTo(i) == Cardinality({j \in IndicesOf("verifyAllPayment") : j <= i})

\* the response reports a success in one of the three ways the code looks for
ReportsSuccess(r) ==
    /\ ~r.rejected
    /\ \/ r.status = "success"
       \/ r.dataStatus = "successful"
       \/ Contains(LowerCased(r.message), <<"s", "u", "c", "c", "e", "s", "s">>)

(***************************************************************************)
(* C10.  verifyPaymentWithRetry sends at most three requests; the k-th      *)
(* request, k >= 2, directly follows a timer of 2000*k ms and the first     *)
(* request follows none; a response reporting success ends the call with    *)
(* one success toast, one call of onSuccess and the result true, and no     *)
(* request follows it; when three requests have failed or been answered     *)
(* without success, exactly one error toast is shown and the result is      *)
(* false.                                                                   *)
(***************************************************************************)
C10_BoundedRetryWithBackoff ==
    /\ Cardinality(IndicesOf("verifyAllPayment")) <= 3
    /\ \A i \in IndicesOf("verifyAllPayment") :
          IF RequestsUpTo(i) = 1 THEN i = 1
          ELSE paymentLog[i - 1].kind = "setTimeout"
               /\ paymentLog[i - 1].ms = 2000 * RequestsUpTo(i)
    /\ \A i \in IndicesOf("setTimeout") :
          i < Len(paymentLog) => paymentLog[i + 1].kind = "verifyAllPayment"
    /\ \A i \in IndicesOf("settled") :
          ReportsSuccess(paymentLog[i].response) =>
              /\ pc = "done"
              /\ returned = <<TRUE>>
              /\ Len(paymentLog) = i + 2
              /\ paymentLog[i + 1].kind = "toast.success"
              /\ paymentLog[i + 2].kind = "onSuccess"
    /\ Cardinality(IndicesOf("onSuccess")) <= 1
    /\ Cardinality(IndicesOf("toast.error")) <= 1
    /\ pc = "done" =>
          IF \E i \in IndicesOf("settled") : ReportsSuccess(paymentLog[i].response)
          THEN returned = <<TRUE>> /\ IndicesOf("toast.error") = {}
          ELSE /\ returned = <<FALSE>>
               /\ Cardinality(IndicesOf("verifyAllPayment")) = 3
               /\ Cardinality(IndicesOf("settled")) = 3
               /\ Cardinality(IndicesOf("toast.error")) = 1
               /\ paymentLog[Len(paymentLog)].kind = "toast.error"
               /\ IndicesOf("onSuccess") = {}
    /\ pc # "done" => returned = <<>>

C10_Witness ==
    /\ pc = "done"
    /\ returned = <<FALSE>>
    /\ Cardinality(IndicesOf("verifyAllPayment")) = 3
    /\ Cardinality(IndicesOf("toast.error")) = 1
    /\ \E i \in IndicesOf("settled") : paymentLog[i].response.rejected
    /\ \E i \in IndicesOf("settled") : ~paymentLog[i].response.rejected
    /\ \E i, j \in IndicesOf("setTimeout") : paymentLog[i].ms = 4000 /\ paymentLog[j].ms = 6000


(***************************************************************************)
(* C12.  handleFinalize calls processDocument at most once.  When a step of *)
(* processDocument (annotation, reference formatting, document              *)
(* construction, packing) fails, the error thrown is 'Failed to process     *)
(* document', and no object URL and no result exist.  With no content or no *)
(* accepted citation handleFinalize throws 'No content or citations to      *)
(* process' and processDocument is not called.                              *)
(***************************************************************************)
C12_AssemblyFailsOnceAndGenerically ==
    /\ processCalls <= 1
    /\ failedStage # "" =>
          /\ pc = "thrown"
          /\ thrown = "Failed to process document"
          /\ processCalls = 1
          /\ objectUrls = 0
          /\ result = <<>>
    /\ (text = <<>> \/ citations = <<>>) /\ pc \notin {"call", "composed"} =>
          /\ pc = "thrown"
          /\ thrown = "No content or citations to process"
          /\ processCalls = 0
          /\ objectUrls = 0
          /\ result = <<>>
    /\ pc = "thrown" /\ thrown = "No content or citations to process" =>
          text = <<>> \/ citations = <<>>
    /\ pc = "thrown" => thrown # "" /\ result = <<>> /\ objectUrls = 0
    /\ pc = "returned" => thrown = "" /\ processCalls = 1 /\ objectUrls = 1

C12_Witness ==
    /\ pc = "thrown"
    /\ failedStage = "formatReferences"
    /\ thrown = "Failed to process document"
    /\ processCalls = 1
    /\ annotatedText # <<>>


(***************************************************************************)
(* Vocabulary of the later properties of the annotators                     *)
(***************************************************************************)
\* the marker of the preview annotator, as the text shows it
PreviewMarker(pd) == <<"(">> \o LastToken(pd.authors[1]) \o <<",", " ">> \o pd.year \o <<")">>

\* s occurs in t, letters compared case-insensitively
ContainsIgnoringCase(t, s) == Contains(LowerCased(t), LowerCased(s))

(***************************************************************************)
(* C13.  When an annotator returns, every citation (with a first author and *)
(* a year) whose original_sentence occurs in the raw text has its marker in *)
(* the annotated text.                                                      *)
(***************************************************************************)
C13_EveryOccurringSentenceMarked ==
    (pc = "returned" /\ AllWorded) =>
        \A i \in 1..Len(citations) :
            (HasAuthorAndYear(citations[i]) /\ Contains(text, citations[i].original_sentence)) =>
                /\ Contains(annotatedText, AuthorYear(citations[i].paper_details[1]))
                /\ Contains(liveText, PreviewMarker(citations[i].paper_details[1]))

\* sorted is a rearrangement of list
IsRearrangement(sorted, list) ==
    /\ Len(sorted) = Len(list)
    /\ \E f \in [1..Len(list) -> 1..Len(list)] :
          /\ \A i, j \in 1..Len(list) : i # j => f[i] # f[j]
          /\ \A i \in 1..Len(list) : sorted[i] = list[f[i]]

\* the sentence of citation c is a proper part of the sentence of citation d
ProperPart(c, d) ==
    /\ Len(c.original_sentence) < Len(d.original_sentence)
    /\ Contains(d.original_sentence, c.original_sentence)

(***************************************************************************)
(* C14.  The citations are applied in non-increasing order of the length of *)
(* original_sentence, whatever their order in the input.  So a citation     *)
(* whose sentence contains the sentence of another citation as a proper     *)
(* part is applied before that one, to the raw text, and when its sentence  *)
(* occurs there its marker is placed after the whole sentence (in the       *)
(* document annotator before a final '.', '?' or '!').                      *)
(***************************************************************************)
C14_LongestSentenceFirst ==
    /\ (pc = "forEach" \/ (pc = "returned" /\ idx > 0)) =>
          /\ IsRearrangement(sortedCitations, citations)
          /\ \A i, j \in 1..Len(sortedCitations) :
                i < j => Len(sortedCitations[i].original_sentence)
                            >= Len(sortedCitations[j].original_sentence)
    /\ (AfterStep /\ Len(citations) = 2 /\ AllWorded) =>
          \A i, j \in 1..2 :
              (/\ Applied = citations[i]
               /\ HasAuthorAndYear(citations[i])
               /\ citations[j].paper_details # <<>>
               /\ ProperPart(citations[j], citations[i])
               /\ Contains(text, citations[i].original_sentence)) =>
                  LET longer == trim(citations[i].original_sentence)
                      pd     == citations[i].paper_details[1]
                  IN /\ idx = 2
                     /\ prevText = text
                     /\ \/ ContainsIgnoringCase(annotatedText,
                               trimEnd(BodyOf(longer)) \o <<" ">> \o AuthorYear(pd) \o PunctOf(longer))
                        \/ ContainsIgnoringCase(annotatedText, longer \o <<" ">> \o AuthorYear(pd))
                     /\ \E p \in {<<>>, <<".">>, <<"?">>, <<"!">>} :
                           ContainsIgnoringCase(liveText,
                               longer \o p \o <<" ">> \o PreviewMarker(pd) \o <<" ">>)

C14_Witness ==
    /\ pc = "forEach"
    /\ idx = 2
    /\ text = <<"a", " ", "b", " ", "c", ".">>
    /\ citations[1].original_sentence = <<"b">>
    /\ Applied = citations[2]
    /\ annotatedText = <<"a", " ", "b", " ", "c", " ", "(", "D", "o", "e", ",", " ", "2", "0", "2", "0", ")", ".">>
    /\ liveText = <<"a", " ", "b", " ", "c", ".", " ", "(", "D", "o", "e", ",", " ", "2", "0", "2", "0", ")", " ">>

(***************************************************************************)
(* C15.  A single citation whose trimmed original_sentence occurs in the    *)
(* text up to letter case and the length of whitespace runs is annotated by *)
(* both annotators, and one whose sentence does not occur in that sense     *)
(* (regex metacharacters standing for themselves) leaves the text as it is. *)
(***************************************************************************)
C15_LooseLiteralMatching ==
    (/\ pc = "returned"
     /\ Len(citations) = 1
     /\ citations[1].paper_details # <<>>
     /\ AllWorded) =>
        IF OccursLoosely(citations[1].original_sentence, text)
        THEN annotatedText # text /\ liveText # text
        ELSE annotatedText = text /\ liveText = text


(***************************************************************************)
(* C16.  With the style guide 'Harvard' the reference formatter of the      *)
(* downloaded document renders a template of its own: a non-empty Harvard   *)
(* reference list differs from the APA reference list of the same           *)
(* citations.                                                               *)
(***************************************************************************)
C16_HarvardHasOwnTemplate ==
    (styleGuide = "Harvard" /\ Formatted /\ references # <<>>) =>
        references # dp_formatReferences(citations, "APA")

\* createWordDocument has built the document
Built == pc \in {"toBlob", "returned"} \/ (pc = "thrown" /\ failedStage = "Packer.toBlob")

\* the maximal newline-free stretches a..b of t (b = a - 1 for an empty line) that hold a
\* character other than whitespace
NonBlankStretches(t) ==
    {ab \in (1..(Len(t) + 1)) \X (0..Len(t)) :
        /\ ab[1] <= ab[2]
        /\ ab[1] = 1 \/ t[ab[1] - 1] = "\n"
        /\ ab[2] = Len(t) \/ t[ab[2] + 1] = "\n"
        /\ \A i \in ab[1]..ab[2] : t[i] # "\n"
        /\ \E i \in ab[1]..ab[2] : ~IsSpace(t[i])}

\* the position of the heading paragraph of the document
HeadingAt == CHOOSE i \in 1..Len(document) : document[i].heading

(***************************************************************************)
(* C19.  The children of the document built by createWordDocument are, in   *)
(* order: one paragraph per non-blank line of the annotated text, in text   *)
(* order and blank lines dropped, then the single 'References' heading,     *)
(* then one paragraph per unique reference in formatter order; the number   *)
(* of paragraphs is (non-blank lines) + 1 + (unique papers).                *)
(***************************************************************************)
C19_DocumentLayout ==
    Built =>
        LET lines == NonBlankStretches(annotatedText)
            n     == Cardinality(lines)
            uniq  == objectValues(dp_uniquePapersData(citations))
        IN /\ Len(document) = n + 1 + Len(uniq)
           /\ Cardinality({i \in 1..Len(document) : document[i].heading}) = 1
           /\ HeadingAt = n + 1
           /\ document[HeadingAt].children = <<TextRun(<<"R", "e", "f", "e", "r", "e", "n", "c", "e", "s">>)>>
           /\ \A ab \in lines :
                 LET k == Cardinality({cd \in lines : cd[1] < ab[1]}) + 1
                 IN document[k].children = <<TextRun(SubSeq(annotatedText, ab[1], ab[2]))>>
           /\ \A i \in 1..Len(uniq) :
                 document[n + 1 + i].children = dp_children(uniq[i], styleGuide)

C19_Witness ==
    /\ pc = "toBlob"
    /\ Len(splitLines(annotatedText)) = 3
    /\ Cardinality(NonBlankStretches(annotatedText)) = 2
    /\ annotatedText # text
    /\ Len(references) = 2
    /\ Len(document) = 5


(***************************************************************************)
(* C18.  After any sequence of accept and accept-all actions of the         *)
(* dashboard, every citation in acceptedCitations has status "accepted".    *)
(***************************************************************************)
C18_AcceptedHaveStatusAccepted ==
    \A i \in 1..Len(acceptedCitations) : acceptedCitations[i].status = "accepted"


(***************************************************************************)
(* app/components/CitationPerfectionAchieve.tsx and app/components/Hero.tsx:*)
(* handlePaymentSuccessful                                                  *)
(***************************************************************************)
\* the default of the parameter maxRetries
subscribeMaxRetries == 3

\* Hero.tsx, line 254: the factor of the delay before a retry
subscribeBackoffUnit == 2000

Components == {"CitationPerfectionAchieve", "Hero"}

\* an error createSubscription rejects with: error.name, error.code, error.message,
\* error.response.data.message
SubscribeError(name, code, message, responseMessage) ==
    [name |-> name, code |-> code, message |-> message, responseMessage |-> responseMessage]

SubscribeErrors ==
    {SubscribeError("AxiosError", "ERR_NETWORK", <<"N", "e", "t", "w", "o", "r", "k", " ", "E", "r", "r", "o", "r">>, <<>>),
     SubscribeError("NetworkError", "", <<>>, <<>>),
     SubscribeError("AxiosError", "ERR_BAD_REQUEST", <<"R", "e", "q", "u", "e", "s", "t", " ", "f", "a", "i", "l", "e", "d">>, <<"P", "l", "a", "n", " ", "e", "x", "i", "s", "t", "s">>),
     SubscribeError("Error", "", <<>>, <<>>)}

\* res.data.status of an answer of createSubscription
SubscribeStatuses == {"success", "error", ""}

\* the entries of subscribeLog
CreateSubscription == [kind |-> "createSubscription", ms |-> 0, text |-> <<>>]

SubscribeToastSuccess == [kind |-> "toast.success", ms |-> 0, text |-> <<"s", "u", "b", "s", "c", "r", "i", "p", "t", "i", "o", "n", " ", "a", "c", "t", "i", "v", "a", "t", "e", "d", " ", "s", "u", "c", "c", "e", "s", "s", "f", "u", "l", "l", "y", "!">>]

SubscribeToastError(t) == [kind |-> "toast.error", ms |-> 0, text |-> t]

NavigateToHero == [kind |-> "navigateToHero", ms |-> 0, text |-> <<>>]

SubscribeTimer(ms) == [kind |-> "setTimeout", ms |-> ms, text |-> <<>>]

\* error?.response?.data?.message || error?.message || the default message
subscribeErrorMessage(error) ==
    IF error.responseMessage # <<>> THEN error.responseMessage
    ELSE IF error.message # <<>> THEN error.message
    ELSE <<"F", "a", "i", "l", "e", "d", " ", "t", "o", " ", "a", "c", "t", "i", "v", "a", "t", "e", " ", "s", "u", "b", "s", "c", "r", "i", "p", "t", "i", "o", "n", ".", " ", "P", "l", "e", "a", "s", "e", " ", "c", "o", "n", "t", "a", "c", "t", " ", "s", "u", "p", "p", "o", "r", "t", ".">>

\* Hero.tsx, lines 237-241
isNetworkError(error, onLine) ==
    \/ error.name = "NetworkError"
    \/ error.code = "NETWORK_ERROR"
    \/ ~onLine
    \/ includesLower(error.message, <<"n", "e", "t", "w", "o", "r", "k">>)
    \/ includesLower(error.message, <<"c", "o", "n", "n", "e", "c", "t", "i", "o", "n">>)

InitSubscribe ==
    /\ DashboardMounted
    /\ PaymentIdle
    /\ GateIdle
    /\ AccountIdle
    /\ ConsoleMounted
    /\ text = <<>>
    /\ citations = <<>>
    /\ sortedCitations = <<>>
    /\ idx = 0
    /\ annotatedText = <<>>
    /\ liveText = <<>>
    /\ prevText = <<>>
    /\ prevLive = <<>>
    /\ reannotated = <<>>
    /\ reannotatedLive = <<>>
    /\ styleGuide = "APA"
    /\ references = <<>>
    /\ liveReferences = <<>>
    /\ document = <<>>
    /\ finalDocument = <<>>
    /\ result = <<>>
    /\ thrown = ""
    /\ processCalls = 0
    /\ objectUrls = 0
    /\ failedStage = ""
    /\ component \in Components
    /\ email \in BOOLEAN
    /\ createAttempt = 1
    /\ subscribeLog = <<>>
    /\ isLoading = FALSE
    /\ pc = "handlePaymentSuccessful"

unchangedBySubscribe == <<text, citations, annotateVars, finalizeVars, dashboardVars,
                          paymentVars, gateVars, accountVars, consoleVars, component,
                          email>>

\* CitationPerfectionAchieve.tsx, lines 96-99; Hero.tsx, lines 203-213: the guards
SubscribeGuards ==
    /\ pc = "handlePaymentSuccessful"
    /\ IF ~email
       THEN /\ subscribeLog' = Append(subscribeLog,
                                      SubscribeToastError(<<"U", "s", "e", "r", " ", "i", "n", "f", "o", "r", "m", "a", "t", "i", "o", "n", " ", "n", "o", "t", " ", "a", "v", "a", "i", "l", "a", "b", "l", "e">>))
            /\ pc' = "done"
       ELSE \E onLine \in BOOLEAN :
               IF component = "Hero" /\ ~onLine
               THEN /\ subscribeLog' = subscribeLog \o
                         <<NavigateToHero,
                           SubscribeToastError(<<"N", "o", " ", "i", "n", "t", "e", "r", "n", "e", "t", " ", "c", "o", "n", "n", "e", "c", "t", "i", "o", "n", ".", " ", "P", "l", "e", "a", "s", "e", " ", "c", "h", "e", "c", "k", " ", "y", "o", "u", "r", " ", "n", "e", "t", "w", "o", "r", "k", " ", "a", "n", "d", " ", "t", "r", "y", " ", "a", "g", "a", "i", "n", ".">>)>>
                    /\ pc' = "done"
               ELSE /\ pc' = "for"
                    /\ UNCHANGED subscribeLog
    /\ UNCHANGED <<createAttempt, isLoading, unchangedBySubscribe>>

\* the loop condition and the try block up to the await of createSubscription
SubscribeAttemptBegins ==
    /\ pc = "for"
    /\ IF createAttempt <= subscribeMaxRetries
       THEN /\ isLoading' = TRUE
            /\ subscribeLog' = Append(subscribeLog, CreateSubscription)
            /\ pc' = "createSubscription"
       ELSE /\ pc' = "done"
            /\ UNCHANGED <<isLoading, subscribeLog>>
    /\ UNCHANGED <<createAttempt, unchangedBySubscribe>>

\* createSubscription resolves: the rest of the try block, the finally block and attempt++
CreateResolves ==
    /\ pc = "createSubscription"
    /\ \E status \in SubscribeStatuses :
          subscribeLog' =
              IF status = "success"
              THEN subscribeLog \o (IF component = "Hero" THEN <<NavigateToHero>> ELSE <<>>)
                                \o <<SubscribeToastSuccess>>
              ELSE subscribeLog
    /\ isLoading' = FALSE
    /\ createAttempt' = createAttempt + 1
    /\ pc' = "for"
    /\ UNCHANGED unchangedBySubscribe

\* createSubscription rejects: the catch block, and the finally block unless a delay is awaited
CreateRejects ==
    /\ pc = "createSubscription"
    /\ \E error \in SubscribeErrors, onLine \in BOOLEAN :
          IF component = "CitationPerfectionAchieve"
          THEN /\ subscribeLog' = Append(subscribeLog,
                                         SubscribeToastError(subscribeErrorMessage(error)))
               /\ isLoading' = FALSE
               /\ createAttempt' = createAttempt + 1
               /\ pc' = "for"
          ELSE IF ~isNetworkError(error, onLine)
          THEN /\ subscribeLog' = subscribeLog \o
                     <<NavigateToHero, SubscribeToastError(subscribeErrorMessage(error))>>
               /\ isLoading' = FALSE
               /\ pc' = "done"
               /\ UNCHANGED createAttempt
          ELSE IF createAttempt = subscribeMaxRetries
          THEN /\ subscribeLog' = subscribeLog \o
                     <<NavigateToHero,
                       SubscribeToastError(<<"N", "e", "t", "w", "o", "r", "k", " ", "e", "r", "r", "o", "r", ":", " ", "U", "n", "a", "b", "l", "e", " ", "t", "o", " ", "a", "c", "t", "i", "v", "a", "t", "e", " ", "s", "u", "b", "s", "c", "r", "i", "p", "t", "i", "o", "n", ".", " ", "P", "l", "e", "a", "s", "e", " ", "c", "h", "e", "c", "k", " ", "y", "o", "u", "r", " ", "c", "o", "n", "n", "e", "c", "t", "i", "o", "n", " ", "a", "n", "d", " ", "c", "o", "n", "t", "a", "c", "t", " ", "s", "u", "p", "p", "o", "r", "t", ".">>)>>
               /\ isLoading' = FALSE
               /\ createAttempt' = createAttempt + 1
               /\ pc' = "for"
          ELSE /\ subscribeLog' = subscribeLog \o
                     <<NavigateToHero, SubscribeTimer(subscribeBackoffUnit * createAttempt)>>
               /\ pc' = "setTimeout"
               /\ UNCHANGED <<isLoading, createAttempt>>
    /\ UNCHANGED unchangedBySubscribe

\* Hero.tsx, lines 253-258: the delay before the retry has passed
SubscribeDelayElapses ==
    /\ pc = "setTimeout"
    /\ isLoading' = FALSE
    /\ createAttempt' = createAttempt + 1
    /\ pc' = "for"
    /\ UNCHANGED <<subscribeLog, unchangedBySubscribe>>

NextSubscribe ==
    \/ SubscribeGuards
    \/ SubscribeAttemptBegins
    \/ CreateResolves
    \/ CreateRejects
    \/ SubscribeDelayElapses

SpecSubscribe == InitSubscribe /\ [][NextSubscribe]_vars

\* the number of createSubscription requests sent so far
SubscriptionsRequested ==
    Cardinality({i \in 1..Len(subscribeLog) : subscribeLog[i].kind = "createSubscription"})

(***************************************************************************)
(* C17.  Retry loops are applied to payment verification only: one run of   *)
(* handlePaymentSuccessful, started by one onSuccess of the payment button, *)
(* sends the subscription creation request at most once.                    *)
(***************************************************************************)
C17_SubscriptionCreatedAtMostOnce == SubscriptionsRequested <= 1


(***************************************************************************)
(* The payment gate: app/components/CostBreakDown.tsx, the payment button   *)
(* of app/components/FlutterWaveButton.tsx and handleComplete... of Page    *)
(***************************************************************************)
\* the most calls of the finalize function in flight at a time
MaxPending == 2

\* response.status of the callback of the payment modal
PaymentStatuses == {"successful", "completed", "success", "failed", "cancelled"}

\* CostBreakDown, line 187: Subscribed && !isPending
SubscribedButtonShown == subscription = "subscribed"

\* Page, line 353: the completion modal with the download button is rendered
CompletionModalShown ==
    isCitationPerfectionAchieved /\ processingResult # <<>> /\ ~isProcessing

\* the result the finalize function resolves with for the accepted citations
finalizeResult ==
    [citationCount  |-> Len(acceptedCitations),
     referenceCount |-> getUniqueReferencesCount(acceptedCitations)]

InitGate ==
    /\ PaymentIdle
    /\ SubscribeIdle
    /\ text = <<>>
    /\ citations = <<>>
    /\ sortedCitations = <<>>
    /\ idx = 0
    /\ annotatedText = <<>>
    /\ liveText = <<>>
    /\ prevText = <<>>
    /\ prevLive = <<>>
    /\ reannotated = <<>>
    /\ reannotatedLive = <<>>
    /\ styleGuide = "APA"
    /\ references = <<>>
    /\ liveReferences = <<>>
    /\ document = <<>>
    /\ finalDocument = <<>>
    /\ result = <<>>
    /\ thrown = ""
    /\ processCalls = 0
    /\ objectUrls = 0
    /\ failedStage = ""
    /\ uploadedFiles = <<"f1">>
    /\ extractResult \in {<<>>, <<FileContent("f1")>>}
    /\ isLoadingSuggestions = FALSE
    /\ citationSuggestionsData = <<<<SuggestionOne, SuggestionTwo>>>>
    /\ acceptedCitations \in {<<[SuggestionOne EXCEPT !.status = "accepted"]>>,
                              <<SuggestionOne, SuggestionTwo>>}
    /\ dismissedCitations = <<>>
    /\ pageAnnotatedText = IF extractResult = <<>> THEN <<>>
                           ELSE hook_annotateTextWithCitation(extractResult[1], acceptedCitations)
    /\ activeTab = "suggestions"
    /\ isPayment = TRUE
    /\ subscription = "pending"
    /\ reportedSubscribed = FALSE
    /\ verified = FALSE
    /\ isInitializing = FALSE
    /\ isVerifying = FALSE
    /\ isCitationPerfectionAchieved = FALSE
    /\ isProcessing = FALSE
    /\ processingResult = <<>>
    /\ pendingFinalize = 0
    /\ pageEvent = PageEvent("none", 0)
    /\ flows = <<>>
    /\ AccountIdle
    /\ ConsoleMounted
    /\ pc = "costBreakDown"

unchangedByGate == <<text, citations, annotateVars, finalizeVars, dashboardVars, subscribeVars,
                     flows, accountVars, consoleVars>>

\* CostBreakDown, lines 47-52: the subscription query is answered
SubscriptionSettles ==
    /\ \E subscribed \in BOOLEAN :
          /\ subscription' = IF subscribed THEN "subscribed" ELSE "notSubscribed"
          /\ reportedSubscribed' = (reportedSubscribed \/ subscribed)
    /\ UNCHANGED <<verified, isInitializing, isVerifying, pageVars, paymentVars, pc,
                   unchangedByGate>>

\* CostBreakDown.handleComplete, lines 38-41, and Page.handleCompleteCitationTransportation,
\* lines 314-330, up to the await of the finalize function
handleComplete ==
    IF (extractResult = <<>> \/ extractResult[1] = <<>>) \/ Len(acceptedCitations) = 0
    THEN /\ processingResult' = <<>>
         /\ isCitationPerfectionAchieved' = FALSE
         /\ pageEvent' = PageEvent("noContent", 1)
         /\ UNCHANGED <<isProcessing, pendingFinalize>>
    ELSE /\ isProcessing' = TRUE
         /\ processingResult' = <<>>
         /\ isCitationPerfectionAchieved' = FALSE
         /\ pendingFinalize' = pendingFinalize + 1
         /\ pageEvent' = PageEvent("started", 0)

\* CostBreakDown, lines 187-192: the button of a subscribed user
SubscribedClick ==
    /\ SubscribedButtonShown
    /\ pendingFinalize < MaxPending
    /\ handleComplete
    /\ UNCHANGED <<subscription, reportedSubscribed, verified, isInitializing, isVerifying,
                   paymentVars, pc, unchangedByGate>>

\* Page, lines 327-333 and 338-340: the finalize function resolves
FinalizeResolves ==
    /\ pendingFinalize > 0
    /\ pendingFinalize' = pendingFinalize - 1
    /\ processingResult' = <<finalizeResult>>
    /\ isCitationPerfectionAchieved' = TRUE
    /\ isProcessing' = FALSE
    /\ pageEvent' = PageEvent("finalized", 0)
    /\ UNCHANGED <<subscription, reportedSubscribed, verified, isInitializing, isVerifying,
                   paymentVars, pc, unchangedByGate>>

\* Page, lines 334-340: the finalize function throws
FinalizeRejects ==
    /\ pendingFinalize > 0
    /\ pendingFinalize' = pendingFinalize - 1
    /\ isCitationPerfectionAchieved' = FALSE
    /\ isProcessing' = FALSE
    /\ pageEvent' = PageEvent("finalizeThrew", 1)
    /\ UNCHANGED <<processingResult, subscription, reportedSubscribed, verified, isInitializing,
                   isVerifying, paymentVars, pc, unchangedByGate>>

\* CitationPerfectionAchieve, lines 37-42: a click outside the completion modal
CloseCompletionModal ==
    /\ CompletionModalShown
    /\ isCitationPerfectionAchieved' = FALSE
    /\ UNCHANGED <<isProcessing, processingResult, pendingFinalize, pageEvent, subscription,
                   reportedSubscribed, verified, isInitializing, isVerifying, paymentVars, pc,
                   unchangedByGate>>

\* FlutterWaveButton.handlePaymentClick, lines 127-143, with the button of lines 210-214
PaymentClick ==
    /\ pc = "costBreakDown"
    /\ ~SubscribedButtonShown
    /\ ~(isVerifying \/ isInitializing)
    /\ \E onLine \in BOOLEAN :
          IF onLine
          THEN isInitializing' = TRUE /\ pc' = "testApiConnectivity"
          ELSE UNCHANGED <<isInitializing, pc>>
    /\ UNCHANGED <<subscription, reportedSubscribed, verified, isVerifying, pageVars,
                   paymentVars, unchangedByGate>>

\* lines 145-155 and 193-205: the connectivity test is answered, the modal opens if it passed
ConnectivityTested ==
    /\ pc = "testApiConnectivity"
    /\ \E isConnected \in BOOLEAN : pc' = IF isConnected THEN "modal" ELSE "costBreakDown"
    /\ isInitializing' = FALSE
    /\ UNCHANGED <<subscription, reportedSubscribed, verified, isVerifying, pageVars,
                   paymentVars, unchangedByGate>>

\* lines 186-191: the user closes the payment modal
PaymentModalClosed ==
    /\ pc = "modal"
    /\ isVerifying' = FALSE
    /\ pc' = "costBreakDown"
    /\ UNCHANGED <<subscription, reportedSubscribed, verified, isInitializing, pageVars,
                   paymentVars, unchangedByGate>>

\* lines 157-171 and 181-184: the callback of the payment modal, up to its first await
PaymentCallback ==
    /\ pc = "modal"
    /\ \E status \in PaymentStatuses, transactionId \in BOOLEAN :
          IF status \in {"completed", "successful", "success"} /\ transactionId
          THEN /\ isVerifying' = TRUE
               /\ attempt' = 1
               /\ paymentLog' = <<>>
               /\ returned' = <<>>
               /\ pc' = "for"
          ELSE /\ isVerifying' = FALSE
               /\ pc' = "costBreakDown"
               /\ UNCHANGED paymentVars
    /\ UNCHANGED <<subscription, reportedSubscribed, verified, isInitializing, pageVars,
                   unchangedByGate>>

\* verifyPaymentWithRetry, lines 96-106, with onSuccess bound to handleComplete
\* (CostBreakDown, line 201)
VerifyResolvesAtGate ==
    /\ pc = "await"
    /\ \E r \in Responses :
          LET log == Append(paymentLog, Settled(r))
          IN /\ verified' = (verified \/ ReportsSuccess(r))
             /\ IF judgedSuccessful(r)
                THEN /\ paymentLog' = log \o <<ToastSuccess, OnSuccess(r)>>
                     /\ returned' = <<TRUE>>
                     /\ pc' = "done"
                     /\ UNCHANGED attempt
                     /\ pendingFinalize < MaxPending
                     /\ handleComplete
                ELSE /\ IF attempt = maxRetries
                        THEN catch(log, lastAttemptError(r))
                        ELSE /\ paymentLog' = log
                             /\ attempt' = attempt + 1
                             /\ pc' = "for"
                             /\ UNCHANGED returned
                     /\ UNCHANGED pageVars
    /\ UNCHANGED <<subscription, reportedSubscribed, isInitializing, isVerifying,
                   unchangedByGate>>

\* lines 166 and 181-184: verifyPaymentWithRetry has returned, the callback ends
VerificationReturns ==
    /\ pc = "done"
    /\ isVerifying' = FALSE
    /\ attempt' = 0
    /\ paymentLog' = <<>>
    /\ returned' = <<>>
    /\ pc' = "costBreakDown"
    /\ UNCHANGED <<subscription, reportedSubscribed, verified, isInitializing, pageVars,
                   unchangedByGate>>

NextGate ==
    \/ SubscriptionSettles
    \/ SubscribedClick
    \/ FinalizeResolves
    \/ FinalizeRejects
    \/ CloseCompletionModal
    \/ PaymentClick
    \/ ConnectivityTested
    \/ PaymentModalClosed
    \/ PaymentCallback
    \/ AttemptBegins
    \/ VerifyAllPayment
    \/ VerifyResolvesAtGate
    \/ VerifyRejects
    \/ VerificationReturns

SpecGate == InitGate /\ [][NextGate]_vars


\* document generation has been started, or its result or the download handler is there
GenerationReached ==
    \/ pendingFinalize > 0
    \/ isProcessing
    \/ isCitationPerfectionAchieved
    \/ processingResult # <<>>
    \/ pageEvent.kind # "none"

Parentheses(t) == Cardinality({i \in 1..Len(t) : t[i] = "("})

\* the number of citation markers the annotator has put into the text of the document
MarkersInserted == Parentheses(annotatedText) - Parentheses(text)

(***************************************************************************)
(* C21.  When handleFinalize returns, statistics.citationCount equals the   *)
(* number of citation markers inserted into the text of the document.       *)
(***************************************************************************)
C21_CitationCountMatchesMarkers ==
    pc = "returned" => result[1].citationCount = MarkersInserted

(***************************************************************************)
(* C22.  For every raw text and citation list the annotator of the live     *)
(* preview (hooks) and the annotator of the downloaded document             *)
(* (documentProcessor) return the same annotated text.                      *)
(***************************************************************************)
C22_PreviewEqualsDocument ==
    pc = "returned" => liveText = annotatedText

\* the backend reports the payment as successful: data.status or data.data.status say so
BackendReportsSuccess(r) ==
    /\ ~r.rejected
    /\ r.status = "success" \/ r.dataStatus = "successful"

(***************************************************************************)
(* C24.  verifyPaymentWithRetry calls onSuccess and returns true only for   *)
(* a response whose data.status is 'success' or whose data.data.status is   *)
(* 'successful'; a response reporting a failed or pending payment never     *)
(* triggers onSuccess, whatever its message.                                *)
(***************************************************************************)
C24_SuccessOnlyByStatus ==
    /\ \A i \in 1..Len(paymentLog) :
          paymentLog[i].kind = "onSuccess" => BackendReportsSuccess(paymentLog[i].response)
    /\ returned = <<TRUE>> =>
          \E i \in 1..Len(paymentLog) :
              paymentLog[i].kind = "settled" /\ BackendReportsSuccess(paymentLog[i].response)

(***************************************************************************)
(* C25.  Once a createSubscription call of handlePaymentSuccessful has      *)
(* returned status 'success' (the success toast is shown), that invocation  *)
(* sends no further createSubscription request, in the pricing section and  *)
(* in the completion modal alike.                                           *)
(***************************************************************************)
C25_NoRequestAfterSuccess ==
    \A i, j \in 1..Len(subscribeLog) :
        (i < j /\ subscribeLog[i].kind = "toast.success") =>
            subscribeLog[j].kind # "createSubscription"

(***************************************************************************)
(* app/components/FlutterWaveButton.tsx: handlePaymentClick and the flows   *)
(* it starts.  verifyPaymentWithRetry is one phase here; its steps are the  *)
(* actions of SpecPayment.                                                  *)
(***************************************************************************)
\* the most payment flows started in one behaviour
MaxFlows == 4

\* the phases of a flow: the connectivity test is awaited; the payment modal is open; the
\* callback awaits verifyPaymentWithRetry with the modal open, or after the user closed it;
\* handlePaymentClick and the callback are over
Phases == {"testApiConnectivity", "modal", "verifying", "verifyingClosed", "ended"}

\* the payment modal of some flow covers the page
ModalCoversPage == \E i \in 1..Len(flows) : flows[i] \in {"modal", "verifying"}

InitButton ==
    /\ DashboardMounted
    /\ PaymentIdle
    /\ SubscribeIdle
    /\ text = <<>>
    /\ citations = <<>>
    /\ sortedCitations = <<>>
    /\ idx = 0
    /\ annotatedText = <<>>
    /\ liveText = <<>>
    /\ prevText = <<>>
    /\ prevLive = <<>>
    /\ reannotated = <<>>
    /\ reannotatedLive = <<>>
    /\ styleGuide = "APA"
    /\ references = <<>>
    /\ liveReferences = <<>>
    /\ document = <<>>
    /\ finalDocument = <<>>
    /\ result = <<>>
    /\ thrown = ""
    /\ processCalls = 0
    /\ objectUrls = 0
    /\ failedStage = ""
    /\ subscription = "pending"
    /\ reportedSubscribed = FALSE
    /\ verified = FALSE
    /\ isInitializing = FALSE
    /\ isVerifying = FALSE
    /\ isCitationPerfectionAchieved = FALSE
    /\ isProcessing = FALSE
    /\ processingResult = <<>>
    /\ pendingFinalize = 0
    /\ pageEvent = PageEvent("none", 0)
    /\ flows = <<>>
    /\ AccountIdle
    /\ ConsoleMounted
    /\ pc = "button"

unchangedByButton == <<text, citations, annotateVars, finalizeVars, dashboardVars, paymentVars,
                       subscribeVars, subscription, reportedSubscribed, pageVars, accountVars,
                       consoleVars, pc>>

\* lines 127-143 with the disabled attribute of line 214: a click on the button
ButtonClick ==
    /\ ~ModalCoversPage
    /\ ~(isVerifying \/ isInitializing)
    /\ Len(flows) < MaxFlows
    /\ \E onLine \in BOOLEAN :
          IF onLine
          THEN /\ isInitializing' = TRUE
               /\ flows' = Append(flows, "testApiConnectivity")
          ELSE UNCHANGED <<isInitializing, flows>>
    /\ UNCHANGED <<isVerifying, verified, unchangedByButton>>

\* lines 145-156 and 204-206: the connectivity test is answered; handleFlutterPayment opens the
\* modal when it passed
ButtonConnectivityTested ==
    /\ \E i \in 1..Len(flows) :
          /\ flows[i] = "testApiConnectivity"
          /\ \E isConnected \in BOOLEAN :
                flows' = [flows EXCEPT ![i] = IF isConnected THEN "modal" ELSE "ended"]
    /\ isInitializing' = FALSE
    /\ UNCHANGED <<isVerifying, verified, unchangedByButton>>

\* lines 157-184: the callback of handleFlutterPayment, up to the await of verifyPaymentWithRetry
ButtonCallback ==
    /\ \E i \in 1..Len(flows) :
          /\ flows[i] = "modal"
          /\ \E isPaymentSuccessful \in BOOLEAN :
                IF isPaymentSuccessful
                THEN /\ flows' = [flows EXCEPT ![i] = "verifying"]
                     /\ isVerifying' = TRUE
                ELSE /\ flows' = [flows EXCEPT ![i] = "ended"]
                     /\ isVerifying' = FALSE
    /\ UNCHANGED <<isInitializing, verified, unchangedByButton>>

\* lines 186-191: onClose, the user closes the payment modal
ButtonModalClosed ==
    /\ \E i \in 1..Len(flows) :
          \/ flows[i] = "modal" /\ flows' = [flows EXCEPT ![i] = "ended"]
          \/ flows[i] = "verifying" /\ flows' = [flows EXCEPT ![i] = "verifyingClosed"]
    /\ isVerifying' = FALSE
    /\ UNCHANGED <<isInitializing, verified, unchangedByButton>>

\* lines 166 and 181-184: verifyPaymentWithRetry has returned, having called onSuccess or not;
\* the finally block of the callback
ButtonVerificationReturns ==
    /\ \E i \in 1..Len(flows) :
          /\ flows[i] \in {"verifying", "verifyingClosed"}
          /\ flows' = [flows EXCEPT ![i] = "ended"]
    /\ \E onSuccessCalled \in BOOLEAN : verified' = (verified \/ onSuccessCalled)
    /\ isVerifying' = FALSE
    /\ UNCHANGED <<isInitializing, unchangedByButton>>

NextButton ==
    \/ ButtonClick
    \/ ButtonConnectivityTested
    \/ ButtonCallback
    \/ ButtonModalClosed
    \/ ButtonVerificationReturns

SpecButton == InitButton /\ [][NextButton]_vars

\* the flows that have not ended
FlowsInProgress == {i \in 1..Len(flows) : flows[i] # "ended"}

\* the flows whose verifyPaymentWithRetry is running
FlowsVerifying == {i \in 1..Len(flows) : flows[i] \in {"verifying", "verifyingClosed"}}

(***************************************************************************)
(* C23.  While a payment flow is in progress (connectivity test, modal      *)
(* open, verification running, also after the user closed the modal during  *)
(* verification) no second flow is started and verifyPaymentWithRetry is    *)
(* never active twice; once the flows have ended isInitializing and         *)
(* isVerifying are false.                                                   *)
(***************************************************************************)
C23_OneFlowAtATime ==
    /\ Cardinality(FlowsInProgress) <= 1
    /\ Cardinality(FlowsVerifying) <= 1
    /\ FlowsInProgress = {} => (~isInitializing /\ ~isVerifying)

\* lines 453-486: the main view shows the paragraph with annotatedText
ContentDisplayed ==
    /\ extractResult # <<>>
    /\ extractResult[1] # <<>>
    /\ ~(isLoadingSuggestions /\ citationSuggestionsData = <<>>)
    /\ ~(isCitationPerfectionAchieved /\ processingResult # <<>>)

(***************************************************************************)
(* C26.  Whenever extracted content is displayed in the dashboard, the      *)
(* shown annotatedText is annotateTextWithCitation(raw content of the       *)
(* current file, current acceptedCitations), after any sequence of accept,  *)
(* accept-all, dismiss and re-upload; citations accepted for a previous     *)
(* file do not stay accepted for a new file.                                *)
(***************************************************************************)
C26_ShownTextIsAnnotationOfAccepted ==
    ContentDisplayed =>
        pageAnnotatedText = hook_annotateTextWithCitation(extractResult[1], acceptedCitations)

(***************************************************************************)
(* app/QueryProvider.tsx (Page) and app/components/CreateAccountModal.tsx:  *)
(* the account modal, its form and the login and register requests.         *)
(***************************************************************************)
\* the most login and register requests awaiting their answer
MaxRequests == 2

\* nothing has been annotated or finalized
NothingAnnotated ==
    /\ text = <<>>
    /\ citations = <<>>
    /\ sortedCitations = <<>>
    /\ idx = 0
    /\ annotatedText = <<>>
    /\ liveText = <<>>
    /\ prevText = <<>>
    /\ prevLive = <<>>
    /\ reannotated = <<>>
    /\ reannotatedLive = <<>>
    /\ styleGuide = "APA"
    /\ references = <<>>
    /\ liveReferences = <<>>
    /\ document = <<>>
    /\ finalDocument = <<>>
    /\ result = <<>>
    /\ thrown = ""
    /\ processCalls = 0
    /\ objectUrls = 0
    /\ failedStage = ""

\* what the user types into the email field and into the two password fields
Emails == {<<>>,
           <<"x", "@", "y">>,
           <<"x", "@", "y", ".", "z">>,
           <<"x", "@", "y", ".", ".", "z">>,
           <<"@", "y", ".", "z">>,
           <<"x", " ", "y", "@", "z", ".", "w">>,
           <<"x", "@", "y", "@", "z", ".", "w">>}

Passwords == {<<>>, <<"1", "2", "3", "4", "5">>, <<"1", "2", "3", "4", "5", "6">>}

Fields == {"email", "password", "confirmPassword"}

\* the data of a successful answer of the auth service, as localStorage.setItem stores them;
\* a field the answer lacks is stored as the string 'undefined'
AuthResponses == {[access_token |-> "t1", email |-> "e1", id |-> "1"],
                  [access_token |-> "undefined", email |-> "undefined", id |-> "undefined"]}

\* CreateAccountModal, line 39: a character that [^\s@] matches
NeitherSpaceNorAt(c) == ~IsSpace(c) /\ c # "@"

\* CreateAccountModal, lines 38-39: /^[^\s@]+@[^\s@]+\.[^\s@]+$/.test(email)
isValidEmail_noDot(e) ==
    \E i \in 2..(Len(e) - 1) :
        /\ e[i] = "@"
        /\ \A k \in (1..Len(e)) \ {i} : NeitherSpaceNorAt(e[k])

isValidEmail(e) ==
    \E i \in 2..(Len(e) - 3) :
        /\ e[i] = "@"
        /\ \A k \in (1..Len(e)) \ {i} : NeitherSpaceNorAt(e[k])
        /\ \E j \in (i + 2)..(Len(e) - 1) : e[j] = "."

\* CreateAccountModal, lines 41-63, with formData and isLogin of the current render
validateField(name, value) ==
    CASE name = "email" ->
            IF value # <<>> /\ ~isValidEmail(value)
            THEN "Please enter a valid email address" ELSE ""
      [] name = "password" ->
            IF value # <<>> /\ Len(value) < 6
            THEN "Password must be at least 6 characters" ELSE ""
      [] name = "confirmPassword" ->
            IF ~isLogin /\ value # <<>> /\ value # formData.password
            THEN "Passwords do not match" ELSE ""

\* Page, lines 346-351: CreateAccountModal is rendered
ModalShown == isRegisterReady /\ token = <<>>

\* CreateAccountModal, line 172: a mutation of the mounted modal is pending
isLoadingAuth == \E i \in 1..Len(authRequests) : authRequests[i].mounted

\* the modal is taken from the page: its state is lost and its mutations are no longer observed
Unmounted(requests) == [i \in 1..Len(requests) |-> [requests[i] EXCEPT !.mounted = FALSE]]

RemoveAt(s, i) == [k \in 1..(Len(s) - 1) |-> IF k < i THEN s[k] ELSE s[k + 1]]

StoredNothing == [token |-> <<>>, userEmail |-> <<>>, id |-> <<>>]

InitAccount ==
    /\ DashboardMounted
    /\ PaymentIdle
    /\ SubscribeIdle
    /\ GateIdle
    /\ ConsoleMounted
    /\ NothingAnnotated
    /\ localStorage \in {StoredNothing, [token |-> <<"t0">>, userEmail |-> <<"e0">>, id |-> <<"0">>]}
    /\ token = localStorage.token
    /\ isRegisterReady = FALSE
    /\ isCitationReady = FALSE
    /\ isLogin = FALSE
    /\ formData = Form(<<>>, <<>>, <<>>)
    /\ errors = Form("", "", "")
    /\ authRequests = <<>>
    /\ authEvent = "none"
    /\ pc = "page"

unchangedByAccount == <<text, citations, annotateVars, finalizeVars, dashboardVars, paymentVars,
                        subscribeVars, gateVars, consoleVars, pc>>

\* Page, lines 177-181: new suggestions have arrived
SuggestionsReady ==
    /\ ~isCitationReady
    /\ isCitationReady' = TRUE
    /\ authEvent' = "citationReady"
    /\ UNCHANGED <<localStorage, token, isRegisterReady, isLogin, formData, errors,
                   authRequests, unchangedByAccount>>

\* Page, lines 193-204: the timer of 10 s fires
CitationReadyTimer ==
    /\ isCitationReady
    /\ isCitationReady' = FALSE
    /\ isRegisterReady' = TRUE
    /\ authEvent' = "registerReady"
    /\ UNCHANGED <<localStorage, token, isLogin, formData, errors, authRequests,
                   unchangedByAccount>>

\* CreateAccountModal, lines 19-30: a click outside the modal
handleClickOutside ==
    /\ ModalShown
    /\ isRegisterReady' = FALSE
    /\ formData' = Form(<<>>, <<>>, <<>>)
    /\ errors' = Form("", "", "")
    /\ authRequests' = Unmounted(authRequests)
    /\ authEvent' = "closed"
    /\ UNCHANGED <<localStorage, token, isCitationReady, isLogin, unchangedByAccount>>

\* CreateAccountModal, line 266: the switch between 'Sign in' and 'Sign up'
ToggleLogin ==
    /\ ModalShown
    /\ isLogin' = ~isLogin
    /\ authEvent' = "toggled"
    /\ UNCHANGED <<localStorage, token, isRegisterReady, isCitationReady, formData, errors,
                   authRequests, unchangedByAccount>>

\* CreateAccountModal, lines 72-85
handleChange ==
    /\ ModalShown
    /\ \E name \in Fields :
          \E value \in IF name = "email" THEN Emails ELSE Passwords :
             LET error == validateField(name, value)
                 shown == [errors EXCEPT ![name] = error]
             IN /\ formData' = [formData EXCEPT ![name] = value]
                /\ errors' =
                      IF name = "password" /\ ~isLogin /\ formData.confirmPassword # <<>>
                      THEN [shown EXCEPT !.confirmPassword =
                               validateField("confirmPassword", formData.confirmPassword)]
                      ELSE shown
    /\ authEvent' = "typed"
    /\ UNCHANGED <<localStorage, token, isRegisterReady, isCitationReady, isLogin,
                   authRequests, unchangedByAccount>>

\* CreateAccountModal, lines 137-146: the errors handleSubmit finds
newErrors ==
    Form(IF formData.email = <<>> THEN "Email is required"
         ELSE validateField("email", formData.email),
         IF formData.password = <<>> THEN "Password is required"
         ELSE validateField("password", formData.password),
         IF isLogin THEN ""
         ELSE IF formData.confirmPassword = <<>> THEN "Please confirm your password"
         ELSE validateField("confirmPassword", formData.confirmPassword))

\* CreateAccountModal, lines 133-163 and 272-273
handleSubmit ==
    /\ ModalShown
    /\ ~isLoadingAuth
    /\ Len(authRequests) < MaxRequests
    /\ errors' = newErrors
    /\ IF \E name \in Fields : newErrors[name] # ""
       THEN /\ authEvent' = "invalid"
            /\ UNCHANGED authRequests
       ELSE /\ authRequests' =
                  Append(authRequests,
                         [kind |-> IF isLogin THEN "login" ELSE "register",
                          payload |-> [email |-> formData.email,
                                       password |-> formData.password],
                          mounted |-> TRUE])
            /\ authEvent' = "sent"
    /\ UNCHANGED <<localStorage, token, isRegisterReady, isCitationReady, isLogin, formData,
                   unchangedByAccount>>

\* CreateAccountModal, lines 94-101 and 113-121: onSuccess of registerMutation and loginMutation
AuthSucceeds ==
    /\ \E i \in 1..Len(authRequests) :
          /\ authRequests' = Unmounted(RemoveAt(authRequests, i))
          /\ \E data \in AuthResponses :
                localStorage' = [token |-> <<data.access_token>>,
                                 userEmail |-> <<data.email>>,
                                 id |-> <<data.id>>]
    /\ isRegisterReady' = FALSE
    /\ formData' = Form(<<>>, <<>>, <<>>)
    /\ errors' = Form("", "", "")
    /\ authEvent' = "success"
    /\ UNCHANGED <<token, isCitationReady, isLogin, unchangedByAccount>>

\* CreateAccountModal, lines 102-108 and 122-128: onError
AuthFails ==
    /\ \E i \in 1..Len(authRequests) : authRequests' = RemoveAt(authRequests, i)
    /\ authEvent' = "error"
    /\ UNCHANGED <<localStorage, token, isRegisterReady, isCitationReady, isLogin, formData,
                   errors, unchangedByAccount>>

NextAccount ==
    \/ SuggestionsReady
    \/ CitationReadyTimer
    \/ handleClickOutside
    \/ ToggleLogin
    \/ handleChange
    \/ handleSubmit
    \/ AuthSucceeds
    \/ AuthFails

SpecAccount == InitAccount /\ [][NextAccount]_vars

(***************************************************************************)
(* C27.  The dashboard never renders CreateAccountModal while localStorage  *)
(* holds an auth token: after a login or registration succeeded in the      *)
(* modal, no later event of the session shows the modal again.              *)
(***************************************************************************)
C27_NoModalWithStoredToken == ModalShown => localStorage.token = <<>>

\* the email has the form x@y.z with x, y and z not empty
FormXAtYDotZ(e) ==
    \E i \in 1..Len(e) : \E j \in 1..Len(e) :
        /\ e[i] = "@"
        /\ e[j] = "."
        /\ 1 < i
        /\ i + 1 < j
        /\ j < Len(e)

\* the form passes the checks the submission is said to make
FormIsValid ==
    /\ formData.email # <<>>
    /\ FormXAtYDotZ(formData.email)
    /\ formData.password # <<>>
    /\ Len(formData.password) >= 6
    /\ ~isLogin => (formData.confirmPassword # <<>>
                       /\ formData.confirmPassword = formData.password)

(***************************************************************************)
(* C28.  handleSubmit sends a login or register request only when the       *)
(* email is non-empty and of the form x@y.z, the password is non-empty with *)
(* at least 6 characters and, in register mode, confirmPassword is          *)
(* non-empty and equal to the password; otherwise it sends nothing and sets *)
(* the field errors.  The localStorage entries are written only by a        *)
(* successful response; an error response leaves them unchanged and leaves  *)
(* the modal open.                                                          *)
(***************************************************************************)
C28_SubmitValidatesAndStoresOnSuccess ==
    [][/\ Len(authRequests') > Len(authRequests) =>
             (FormIsValid /\ authEvent' = "sent")
       /\ authEvent' = "sent" => FormIsValid
       /\ authEvent' = "invalid" =>
             /\ authRequests' = authRequests
             /\ \E name \in Fields : errors'[name] # ""
       /\ localStorage' # localStorage => authEvent' = "success"
       /\ authEvent' = "error" =>
             /\ localStorage' = localStorage
             /\ ModalShown => ModalShown']_vars

\* a registration was sent from a valid form; it failed, and the modal is still shown with
\* nothing stored
C28_Witness ==
    /\ authEvent = "error"
    /\ ModalShown
    /\ ~isLogin
    /\ FormIsValid
    /\ localStorage = StoredNothing

(***************************************************************************)
(* src/App.tsx: the pipeline console.  A job is started by startProcessing  *)
(* and polled by the interval of pollJobUpdates; every tick of the interval *)
(* is an async callback of three requests.                                  *)
(***************************************************************************)
\* the most jobs started in one behaviour, and the most ticks of a job awaiting a response
MaxJobs == 2

MaxTicks == 2

\* the most papers a stats response reports and the most entries of a logs response
MaxPapers == 2

\* what the user types into the query and the category field
Terms == {<<>>, <<"q">>}

JobStatuses == {"running", "completed", "failed"}

\* a tick of the interval: the request it awaits and the status it has read
Tick(at, status) == [at |-> at, status |-> status]

\* a job: 'posting' while the POST is awaited, 'polling' while its interval runs, 'cleared' after
\* clearInterval or when the POST failed
Job(phase, serverStatus, ticks) == [phase |-> phase, serverStatus |-> serverStatus, ticks |-> ticks]

InitConsole ==
    /\ DashboardMounted
    /\ PaymentIdle
    /\ SubscribeIdle
    /\ GateIdle
    /\ AccountIdle
    /\ NothingAnnotated
    /\ ConsoleMounted
    /\ pc = "console"

unchangedByConsole == <<text, citations, annotateVars, finalizeVars, dashboardVars, paymentVars,
                        subscribeVars, gateVars, accountVars, pc>>

\* lines 186-205: the query and the category field
SetSearchDetails ==
    /\ ~appIsProcessing
    /\ \E query \in Terms : \E category \in Terms :
          /\ query = searchDetails.query \/ category = searchDetails.category
          /\ searchDetails' = [query |-> query, category |-> category]
    /\ UNCHANGED <<appIsProcessing, stats, logs, appError, currentJobId, jobs,
                   unchangedByConsole>>

\* lines 81-106 and 245-247: a click on 'Start Processing', up to the await of the POST
startProcessing ==
    /\ ~(appIsProcessing \/ searchDetails.query = <<>> \/ searchDetails.category = <<>>)
    /\ Len(jobs) < MaxJobs
    /\ IF searchDetails.query = <<>> \/ searchDetails.category = <<>>
       THEN /\ appError' = "Query and category are required"
            /\ UNCHANGED <<appIsProcessing, stats, logs, jobs>>
       ELSE /\ appIsProcessing' = TRUE
            /\ appError' = ""
            /\ logs' = <<>>
            /\ stats' = [stats EXCEPT !.papersProcessed = 0, !.isProcessing = TRUE]
            /\ jobs' = Append(jobs, Job("posting", "running", <<>>))
    /\ UNCHANGED <<searchDetails, currentJobId, unchangedByConsole>>

\* lines 108-112: the POST is answered; pollJobUpdates sets the interval
PostResolves ==
    /\ \E j \in 1..Len(jobs) :
          /\ jobs[j].phase = "posting"
          /\ currentJobId' = j
          /\ jobs' = [jobs EXCEPT ![j].phase = "polling"]
    /\ UNCHANGED <<searchDetails, appIsProcessing, stats, logs, appError, unchangedByConsole>>

\* lines 113-117: the POST fails
PostRejects ==
    /\ \E j \in 1..Len(jobs) :
          /\ jobs[j].phase = "posting"
          /\ jobs' = [jobs EXCEPT ![j].phase = "cleared"]
    /\ appIsProcessing' = FALSE
    /\ appError' = "Failed to start processing. Please check the server logs."
    /\ UNCHANGED <<searchDetails, stats, logs, currentJobId, unchangedByConsole>>

\* lines 122-125 and 147: the interval fires and the tick requests the status of the job
IntervalFires ==
    /\ \E j \in 1..Len(jobs) :
          /\ jobs[j].phase = "polling"
          /\ Len(jobs[j].ticks) < MaxTicks
          /\ jobs' = [jobs EXCEPT ![j].ticks = Append(@, Tick("status", ""))]
    /\ UNCHANGED <<searchDetails, appIsProcessing, stats, logs, appError, currentJobId,
                   unchangedByConsole>>

\* lines 141-146: the catch block of a tick of job j
TickCatches(j, k) ==
    /\ jobs' = [jobs EXCEPT ![j].phase = "cleared", ![j].ticks = RemoveAt(@, k)]
    /\ appIsProcessing' = FALSE
    /\ appError' = "Lost connection to the job. Please check server logs."
    /\ UNCHANGED <<stats, logs>>

\* lines 125-129: the status request of a tick is answered
StatusAnswered ==
    /\ \E j \in 1..Len(jobs) : \E k \in 1..Len(jobs[j].ticks) :
          /\ jobs[j].ticks[k].at = "status"
          /\ \/ \E status \in JobStatuses :
                   /\ jobs[j].serverStatus \in {"running", status}
                   /\ jobs' = [jobs EXCEPT ![j].serverStatus = status,
                                           ![j].ticks[k] = Tick("stats", status)]
                   /\ UNCHANGED <<appIsProcessing, stats, logs, appError>>
             \/ TickCatches(j, k)
    /\ UNCHANGED <<searchDetails, currentJobId, unchangedByConsole>>

\* lines 129-133: the stats request of a tick is answered
StatsAnswered ==
    /\ \E j \in 1..Len(jobs) : \E k \in 1..Len(jobs[j].ticks) :
          /\ jobs[j].ticks[k].at = "stats"
          /\ \/ \E papers \in 1..MaxPapers :
                   /\ stats' = [job |-> j, papersProcessed |-> papers,
                                isProcessing |-> jobs[j].serverStatus = "running"]
                   /\ jobs' = [jobs EXCEPT ![j].ticks[k].at = "logs"]
                   /\ UNCHANGED <<appIsProcessing, logs, appError>>
             \/ TickCatches(j, k)
    /\ UNCHANGED <<searchDetails, currentJobId, unchangedByConsole>>

\* lines 133-140: the logs request of a tick is answered and the tick ends
LogsAnswered ==
    /\ \E j \in 1..Len(jobs) : \E k \in 1..Len(jobs[j].ticks) :
          /\ jobs[j].ticks[k].at = "logs"
          /\ \/ \E entries \in 1..MaxPapers :
                   /\ logs' = [i \in 1..entries |-> [job |-> j]]
                   /\ IF jobs[j].ticks[k].status \in {"completed", "failed"}
                      THEN /\ jobs' = [jobs EXCEPT ![j].phase = "cleared",
                                                   ![j].ticks = RemoveAt(@, k)]
                           /\ appIsProcessing' = FALSE
                      ELSE /\ jobs' = [jobs EXCEPT ![j].ticks = RemoveAt(@, k)]
                           /\ UNCHANGED appIsProcessing
                   /\ UNCHANGED <<stats, appError>>
             \/ TickCatches(j, k)
    /\ UNCHANGED <<searchDetails, currentJobId, unchangedByConsole>>

NextConsole ==
    \/ SetSearchDetails
    \/ startProcessing
    \/ PostResolves
    \/ PostRejects
    \/ IntervalFires
    \/ StatusAnswered
    \/ StatsAnswered
    \/ LogsAnswered

SpecConsole == InitConsole /\ [][NextConsole]_vars

\* the interval of job j was cleared
PollingEnded(j) == jobs[j].phase = "cleared"

(***************************************************************************)
(* C29.  Polling of a job ends when a tick observes 'completed' or 'failed' *)
(* or a poll request fails: the interval is cleared and isProcessing        *)
(* becomes false, and after that no poll result of that job, also of a tick *)
(* still in flight, changes stats, logs, error or isProcessing; while       *)
(* isProcessing is true no second job is started, and startProcessing with  *)
(* an empty query or category sends no request.                             *)
(***************************************************************************)
C29_NoPollResultAfterPollingEnded ==
    [][/\ \A j \in 1..Len(jobs) :
             /\ (PollingEnded(j) /\ jobs'[j] # jobs[j]) =>
                   UNCHANGED <<stats, logs, appError, appIsProcessing>>
             /\ (~PollingEnded(j) /\ jobs'[j].phase = "cleared") => ~appIsProcessing'
       /\ Len(jobs') > Len(jobs) =>
             /\ ~appIsProcessing
             /\ searchDetails.query # <<>>
             /\ searchDetails.category # <<>>]_vars

====
